---------------------------- MODULE Spec2Model ----------------------------
(***************************************************************************)
(* A model of the attribute-slot / observation core of masaris:            *)
(*   - ExecutorBase and its subclasses (objects/core.py, executors.py),    *)
(*   - BaseParameterized / Parameterized (objects/core.py),                *)
(*   - Watchers / Watcher / Dependent (objects/watchers.py),               *)
(*   - add_par_to_class (utilities/classTools.py).                         *)
(* Python objects whose identity matters (executors, descriptor tables,    *)
(* types, instances) live on heaps: sequences indexed by object id.        *)
(* The engine is single threaded and synchronous, so every operation is    *)
(* one atomic action whose effect is computed by recursive operators that  *)
(* follow the code statement by statement.                                 *)
(***************************************************************************)
EXTENDS Integers, Sequences, FiniteSets, TLC

VARIABLES
    slots,    \* heap of executors (attribute slots): Seq of slot records
    objs,     \* heap of Parameterized instances
    types,    \* heap of types (classes)
    tables,   \* heap of descriptor tables (MyDict objects)
    log,      \* invocation log of the last operation (modifiers, callbacks)
    last,     \* observation of the last operation (what the caller saw)
    steps,    \* number of operations performed so far
    call      \* the evaluation of `parameters` in progress, frame by frame

vars == <<slots, objs, types, tables, log, last, steps, call>>

----------------------------------------------------------------------------
(* Bounds of the model.                                                    *)

MaxVal == 3        \* written values are 0..MaxVal
MaxObjs == 2       \* instances constructed in one run
MaxSteps == 4      \* operations in one run
MaxReg == 1        \* instance-level watchers registered on one slot
MaxDecls == 2      \* declarations in the body of one class definition
MaxTypes == 3      \* class definitions in one run
MaxClasses == 2    \* classes declared with watchers in one run

----------------------------------------------------------------------------
(* Values.  Python's None is NoneV; Unset marks "no such key / no such     *)
(* argument" (it is never a value of the program).                         *)

NoneV == 0 - 1
Unset == NoneV - 1
Values == 0..MaxVal
ValuesOrNone == Values \cup {NoneV}

AllNames == {"a", "s", "r", "n", "value"}

Range(f) == {f[i] : i \in DOMAIN f}

----------------------------------------------------------------------------
(* Python dict with insertion order: keys in order, and the value (an      *)
(* object id, 0 when the key is absent) stored under each key.             *)

EmptyDict == [keys |-> <<>>, slot |-> [n \in AllNames |-> 0]]

DictHas(d, k) == d.slot[k] # 0

DictGet(d, k) == d.slot[k]

DictSet(d, k, v) ==
    [d EXCEPT !.keys = IF DictHas(d, k) THEN @ ELSE Append(@, k),
              !.slot[k] = v]

DictKeys(d) == Range(d.keys)

----------------------------------------------------------------------------
(* Callables held in the chains of an executor.  `self` is the executor a  *)
(* bound method is bound to (0 for a plain function).                      *)
(*   check_type     Typed._check_type      (validator)                     *)
(*   check_limits   LimitedNumber._check_limits (validator)                *)
(*   set_extension  Selector._set_extension (write modifier)               *)
(*   get_extension  Sampler._get_extension  (read modifier)                *)
(*   logger         Logger.__call__         (modifier)                     *)
(*   dependent      the wrapper made by Dependent.generate_dependent       *)
(*   record / raise / reject / clamp : user functions given to             *)
(*   Watchers.watch or Watchers.register: record observes, raise always    *)
(*   raises, reject raises on new value = arg, clamp writes arg back to    *)
(*   the slot (extra.value = arg) when the new value exceeds arg;          *)
(*   read_n reads the attribute n of the object it is called with          *)
(*   (obj.n), as Descriptor._update_display_name reads self.display_name;  *)
(*   set_n writes the new value to that attribute (obj.n = value), as      *)
(*   Descriptor._update_display_name writes self.display_name; peek reads  *)
(*   extra.previous_value and extra.value, as print_a of test1.py does.    *)

Cb(op, self, arg) == [op |-> op, self |-> self, arg |-> arg]

UserFn(op, arg) == Cb(op, 0, arg)

----------------------------------------------------------------------------
(* The world the operations act on, and the result of an operation:        *)
(* log is emptied when an operation starts;                                *)
(* exc is the exception that propagates to the caller ("" for none), by    *)
(* the chain whose callable raised it, ret the returned value.             *)

(* smp is what the sampler function of a Sampler returns when it is called  *)
(* during the operation (an input of the operation).                       *)

World(smp) == [slots |-> slots, objs |-> objs, types |-> types,
               tables |-> tables, log |-> <<>>, smp |-> smp]

EmptyWorld == [slots |-> <<>>, objs |-> <<>>, types |-> <<>>, tables |-> <<>>,
               log |-> <<>>, smp |-> NoneV]

Ok(w) == [w |-> w, exc |-> "", by |-> "", ret |-> NoneV]

Ret(w, v) == [w |-> w, exc |-> "", by |-> "", ret |-> v]

Raise(w, e, by) == [w |-> w, exc |-> e, by |-> by, ret |-> NoneV]

SetSlot(w, sid, s) == [w EXCEPT !.slots[sid] = s]

\* the log records every call made from a chain and, as chain "commit",
\* every write that ends without an exception
Logged(w, chain, cb, sid, v, depth) ==
    [w EXCEPT !.log = Append(@, [chain |-> chain, op |-> cb.op, arg |-> cb.arg,
                                 slot |-> sid, val |-> v, depth |-> depth])]

LoggedCommit(w, sid, v, depth) ==
    [w EXCEPT !.log = Append(@, [chain |-> "commit", op |-> "", arg |-> 0,
                                 slot |-> sid, val |-> v, depth |-> depth])]

\* did a write to sid commit after the log had `mark` entries?
CommitSince(w, sid, mark) ==
    \E i \in (mark + 1)..Len(w.log) :
        w.log[i].chain = "commit" /\ w.log[i].slot = sid

----------------------------------------------------------------------------
(* Executors (attribute slots).  before/committed are history variables:   *)
(* the value the slot held when its most recent committed write began (of  *)
(* two committed writes the one that began later is the more recent), and  *)
(* whether a write has committed at all.                                   *)

Inf == MaxVal + 1
NegInf == Unset - 1

\* a Parameterized object as a value: the reference to the object o
Ref(o) == Inf + o
IsRef(v) == v > Inf
Deref(v) == v - Inf

NoParent == [k |-> "none", id |-> 0]
TypeRef(t) == [k |-> "type", id |-> t]
ObjRef(o) == [k |-> "obj", id |-> o]

\* ExecutorBase.__init__ followed by Executor.__init__
Executor(value, write_modifiers, read_modifiers) ==
    [kind |-> "Executor",
     value |-> value, previous_value |-> NoneV, first |-> TRUE,
     default_value |-> value, name |-> "", parent |-> NoParent,
     write_modifiers |-> write_modifiers, read_modifiers |-> read_modifiers,
     configuration |-> <<>>, class_executions |-> <<>>, executions |-> <<>>,
     readonly |-> FALSE, visible |-> TRUE, inherit_watchers |-> TRUE,
     allow_none |-> TRUE,
     types |-> <<>>, allow_subclasses |-> FALSE,
     limits |-> <<NegInf, Inf>>, choices |-> {},
     before |-> NoneV, committed |-> FALSE]

\* Typed.__init__: sid is the identity of the new executor
Typed(sid, allowed_types, value, write_modifiers) ==
    [Executor(value, write_modifiers, <<>>) EXCEPT
        !.kind = "Typed", !.types = allowed_types,
        !.configuration = Append(@, Cb("check_type", sid, 0))]

\* Numeric.__init__
Numeric(sid, value, write_modifiers) ==
    [Typed(sid, <<"Number">>, value, write_modifiers) EXCEPT !.kind = "Numeric"]

\* LimitedNumber.__init__
LimitedNumber(sid, value, limits, write_modifiers) ==
    [Numeric(sid, value, write_modifiers) EXCEPT
        !.kind = "LimitedNumber", !.limits = limits,
        !.configuration = Append(@, Cb("check_limits", sid, 0))]

\* Selector.__init__
Selector(sid, value, choices) ==
    [Executor(value, <<>>, <<>>) EXCEPT
        !.kind = "Selector", !.choices = choices,
        !.write_modifiers = Append(@, Cb("set_extension", sid, 0))]

\* Sampler.__init__
Sampler(sid, value) ==
    [Executor(value, <<>>, <<>>) EXCEPT
        !.kind = "Sampler",
        !.read_modifiers = Append(@, Cb("get_extension", sid, 0))]

\* type(value) and issubclass, for the values of the model
ShapeOf(v) ==
    IF v = NoneV THEN "NoneType" ELSE IF IsRef(v) THEN "Parameterized" ELSE "int"

IsSubclass(shape, allowed) ==
    \/ shape = allowed
    \/ allowed = "object"
    \/ shape = "int" /\ allowed = "Number"

ChainOf(s, chain) ==
    CASE chain = "write_modifiers" -> s.write_modifiers
      [] chain = "read_modifiers" -> s.read_modifiers
      [] chain = "configuration" -> s.configuration
      [] chain = "class_executions" -> s.class_executions
      [] chain = "executions" -> s.executions

----------------------------------------------------------------------------
(* ExecutorBase.value: the setter, the getter, and the calls they make.    *)
(* An operator named ...Then continues the operator before it with the     *)
(* result r of the call that operator made.                                *)

RECURSIVE SetValue(_, _, _, _)
RECURSIVE SetValueThen(_, _, _, _, _, _, _)
RECURSIVE RunExecutions(_, _, _, _)
RECURSIVE RunChain(_, _, _, _, _, _)
RECURSIVE RunChainThen(_, _, _, _, _, _)
RECURSIVE Call(_, _, _, _, _, _)
RECURSIVE GetAttr(_, _, _)
RECURSIVE SetAttr(_, _, _, _)

\* the end of a callable that read an attribute: the log keeps what it got
ReadThen(r, chain, cb, sid, depth) ==
    IF r.exc # "" THEN Raise(r.w, r.exc, chain)
    ELSE Ok(Logged(r.w, "getattr", cb, sid, r.ret, depth + 1))


\* Typed._check_type
CheckType(w, self, value, chain) ==
    IF \E i \in DOMAIN w.slots[self].types :
          \/ /\ ~w.slots[self].allow_subclasses
             /\ ~IsSubclass(ShapeOf(value), w.slots[self].types[i])
          \/ ~IsSubclass(ShapeOf(value), w.slots[self].types[i])
    THEN Raise(w, "TypeError", chain)
    ELSE Ok(w)

\* _check_limits with the bounds themselves out of the range
CheckLimitsStrict(w, self, value, chain) ==
    IF value = NoneV THEN Raise(w, "TypeError", chain)
    ELSE IF ~(w.slots[self].limits[1] < value /\ value < w.slots[self].limits[2])
    THEN Raise(w, "ValueError", chain)
    ELSE Ok(w)

\* LimitedNumber._check_limits (None compared with a number is a TypeError)
CheckLimits(w, self, value, chain) ==
    IF value = NoneV THEN Raise(w, "TypeError", chain)
    ELSE IF ~(w.slots[self].limits[1] <= value /\ value <= w.slots[self].limits[2])
    THEN Raise(w, "ValueError", chain)
    ELSE Ok(w)

\* Selector._set_extension
SetExtension(w, self, new_value, chain) ==
    IF new_value \notin w.slots[self].choices
    THEN Raise(w, "ValueError", chain)
    ELSE Ok(w)

\* an exception of a nested write leaves the callable that made the write
Propagate(r, chain) ==
    IF r.exc # "" THEN Raise(r.w, r.exc, chain) ELSE Ok(r.w)

\* one call  f(self.parent, self.name, value, extra=self)  made by the
\* executor sid from the chain `chain`; w has the call logged
Call(w, chain, cb, sid, value, depth) ==
    CASE cb.op = "check_type" -> CheckType(w, cb.self, value, chain)
      [] cb.op = "check_limits" -> CheckLimits(w, cb.self, value, chain)
      [] cb.op = "set_extension" -> SetExtension(w, cb.self, value, chain)
      \* Sampler._get_extension: new_value = self._sampler(); self.value = new_value
      [] cb.op = "get_extension" ->
            Propagate(SetValue(w, cb.self, w.smp, depth + 1), chain)
      [] cb.op = "logger" -> Ok(w)
      [] cb.op = "record" -> Ok(w)
      \* the wrapper of a Dependent: return fget(obj)
      [] cb.op = "dependent" ->
            Ok(Logged(w, "fget", UserFn("record", cb.arg), sid, NoneV, depth + 1))
      [] cb.op = "raise" -> Raise(w, "UserError", chain)
      [] cb.op = "reject" ->
            IF value = cb.arg THEN Raise(w, "UserError", chain) ELSE Ok(w)
      \* obj.n, for the object the callable is called with
      [] cb.op = "read_n" ->
            IF w.slots[sid].parent.k # "obj" THEN Ok(w)
            ELSE ReadThen(GetAttr(w, w.slots[sid].parent.id, "n"), chain, cb,
                          sid, depth)
      \* obj.n = value, for the object the callable is called with
      [] cb.op = "set_n" ->
            IF w.slots[sid].parent.k # "obj" THEN Ok(w)
            ELSE Propagate(SetAttr(w, w.slots[sid].parent.id, "n", value),
                           chain)
      \* extra.previous_value and extra.value, as the callable reads them
      [] cb.op = "peek" ->
            Ok(Logged(Logged(w, "previous_value", cb, sid,
                             w.slots[sid].previous_value, depth + 1),
                      "value", cb, sid, w.slots[sid].value, depth + 1))
      \* if value > arg: extra.value = arg
      [] cb.op = "clamp" ->
            IF value = NoneV THEN Raise(w, "TypeError", chain)
            ELSE IF value > cb.arg
            THEN Propagate(SetValue(w, sid, cb.arg, depth + 1), chain)
            ELSE Ok(w)

\* for f in chain: f(...)   from the i-th callable on
RunChain(w, chain, sid, i, value, depth) ==
    IF i > Len(ChainOf(w.slots[sid], chain)) THEN Ok(w)
    ELSE RunChainThen(
            Call(Logged(w, chain, ChainOf(w.slots[sid], chain)[i], sid, value, depth),
                 chain, ChainOf(w.slots[sid], chain)[i], sid, value, depth),
            chain, sid, i, value, depth)

RunChainThen(r, chain, sid, i, value, depth) ==
    IF r.exc # "" THEN r ELSE RunChain(r.w, chain, sid, i + 1, value, depth)

\* a next chain that runs whatever the chain before it did
NextChainAlways(r, chain, sid, value, depth) ==
    RunChain(r.w, chain, sid, 1, value, depth)

\* the next chain runs unless the one before raised
NextChain(r, chain, sid, value, depth) ==
    IF r.exc # "" THEN r ELSE RunChain(r.w, chain, sid, 1, value, depth)

\* a try block that runs the type-level callbacks before the validators
RunExecutionsSwapped(w, sid, new_value, depth) ==
    NextChain(
        NextChain(RunChain(w, "class_executions", sid, 1, new_value, depth),
                  "configuration", sid, new_value, depth),
        "executions", sid, new_value, depth)

\* the try block of the setter: configuration, then class-level, then
\* instance-level executions
RunExecutions(w, sid, new_value, depth) ==
    NextChain(
        NextChain(RunChain(w, "configuration", sid, 1, new_value, depth),
                  "class_executions", sid, new_value, depth),
        "executions", sid, new_value, depth)

\* an except block that restores nothing
RestoreNothing(s, previous_value) == s

\* the except block: self._value = self.previous_value;
\*                   self.previous_value = previous_value
Restore(s, previous_value) ==
    [s EXCEPT !.value = s.previous_value, !.previous_value = previous_value]

\* the end of the setter: self._first = False (and the history variables,
\* unless a write nested in this one has committed and is the more recent)
Committed(s, old_value, nested) ==
    [s EXCEPT !.first = FALSE,
              !.before = IF nested THEN @ ELSE old_value,
              !.committed = TRUE]

\* the except block or the normal end of the setter
SetValueEnd(r, sid, new_value, depth, previous_value, old_value, mark) ==
    IF r.exc # ""
    THEN Raise(SetSlot(r.w, sid, Restore(r.w.slots[sid], previous_value)),
               r.exc, r.by)
    ELSE Ok(LoggedCommit(
              SetSlot(r.w, sid, Committed(r.w.slots[sid], old_value,
                                          CommitSince(r.w, sid, mark))),
              sid, new_value, depth))

\* the try block, entered with the result r of the write modifiers (an
\* exception of a write modifier is raised outside it)
SetValueThen(r, sid, new_value, depth, previous_value, old_value, mark) ==
    IF r.exc # "" THEN r
    ELSE SetValueEnd(RunExecutions(r.w, sid, new_value, depth),
                     sid, new_value, depth, previous_value, old_value, mark)

\* ExecutorBase.value.fset
SetValue(w, sid, new_value, depth) ==
    SetValueThen(
        RunChain(SetSlot(w, sid, [w.slots[sid] EXCEPT
                                     !.previous_value = w.slots[sid].value,
                                     !.value = new_value]),
                 "write_modifiers", sid, 1, new_value, depth),
        sid, new_value, depth, w.slots[sid].previous_value, w.slots[sid].value,
        Len(w.log))

\* return self._value
GetValueEnd(r, sid) ==
    IF r.exc # "" THEN r ELSE Ret(r.w, r.w.slots[sid].value)

\* ExecutorBase.value.fget
GetValue(w, sid) ==
    GetValueEnd(RunChain(w, "read_modifiers", sid, 1, w.slots[sid].value, 0), sid)

----------------------------------------------------------------------------
(* Types and their descriptor tables.  A type records its __qualname__,    *)
(* its base (0: Parameterized itself, -1: BaseParameterized), the table it *)
(* owns as its own                                                         *)
(* _descriptors attribute (0: none, the attribute is inherited), its own   *)
(* class attributes that are executors, and the __perinstance mark.        *)

NoAttrs == [n \in AllNames |-> 0]

\* the two roots a class of the model derives from: base 0 is Parameterized,
\* and BaseParameterized is its base
BaseParameterized == 0 - 1

RECURSIVE IsParameterized(_, _)
\* issubclass(t, Parameterized)
IsParameterized(w, t) ==
    IF t <= 0 THEN t = 0 ELSE IsParameterized(w, w.types[t].base)

NewType(qualname, base) ==
    [qualname |-> qualname, base |-> base, descriptors |-> 0,
     attrs |-> NoAttrs, watchers |-> <<>>, perinstance |-> FALSE]

NewTable(owner_class) ==
    [owner_class |-> owner_class, keys |-> <<>>, slot |-> NoAttrs]

RECURSIVE GetDescriptors(_, _)
\* getattr(cls, "_descriptors", None): the id of the table, 0 for None
GetDescriptors(w, t) ==
    IF t <= 0 THEN 0
    ELSE IF w.types[t].descriptors # 0 THEN w.types[t].descriptors
    ELSE GetDescriptors(w, w.types[t].base)

RECURSIVE ClassAttr(_, _, _)
\* the executor found as class attribute `name` along the bases of t
ClassAttr(w, t, name) ==
    IF t <= 0 THEN 0
    ELSE IF w.types[t].attrs[name] # 0 THEN w.types[t].attrs[name]
    ELSE ClassAttr(w, w.types[t].base, name)

RECURSIVE HasPerInstance(_, _)
\* hasattr(cls, "__perinstance")
HasPerInstance(w, t) ==
    IF t <= 0 THEN FALSE
    ELSE w.types[t].perinstance \/ HasPerInstance(w, w.types[t].base)

\* owner._descriptors = MyDict(**descriptors), tagged with the owner's
\* __qualname__, when the table the owner sees carries another tag
ForkTable(w, owner) ==
    IF w.tables[GetDescriptors(w, owner)].owner_class # w.types[owner].qualname
    THEN [w EXCEPT
            !.tables = Append(@, [w.tables[GetDescriptors(w, owner)] EXCEPT
                                     !.owner_class = w.types[owner].qualname]),
            !.types[owner].descriptors = Len(w.tables) + 1]
    ELSE w

\* self._class_executions = deepcopy(previous_executor._class_executions)
\* (the callables of a type-level chain are plain functions)
InheritWatchers(w, sid, previous_executor) ==
    IF /\ previous_executor # 0
       /\ Len(w.slots[previous_executor].class_executions) > 0
       /\ w.slots[sid].inherit_watchers
    THEN [w EXCEPT !.slots[sid].class_executions =
                      w.slots[previous_executor].class_executions]
    ELSE w

\* owner._descriptors[name] = self
Install(w, sid, owner, name) ==
    [w EXCEPT !.tables[GetDescriptors(w, owner)] = DictSet(@, name, sid)]

\* the branch of __set_name__ taken when the owner sees a table; w is the
\* world after the fork
SetNameInTable(w, sid, owner, name) ==
    Install(InheritWatchers(w, sid,
                            DictGet(w.tables[GetDescriptors(w, owner)], name)),
            sid, owner, name)

\* the branch taken when the owner sees no table
SetNameNewTable(w, sid, owner, name) ==
    [w EXCEPT !.tables = Append(@, DictSet(NewTable(w.types[owner].qualname),
                                           name, sid)),
              !.types[owner].descriptors = Len(w.tables) + 1]

\* Executor.__set_name__
ExecutorSetName(w, sid, owner, name) ==
    IF GetDescriptors(w, owner) # 0
    THEN SetNameInTable(
            ForkTable([w EXCEPT !.slots[sid].name = name,
                                !.slots[sid].parent = TypeRef(owner)], owner),
            sid, owner, name)
    ELSE SetNameNewTable([w EXCEPT !.slots[sid].name = name,
                                   !.slots[sid].parent = TypeRef(owner)],
                         sid, owner, name)

\* executor._class_executions.append(self.fget) for one watched name
WatchOne(w, fget, executor) ==
    IF executor # 0
    THEN [w EXCEPT !.slots[executor].class_executions = Append(@, fget)]
    ELSE w

RECURSIVE WatcherSetName(_, _, _, _, _)
\* Watcher.__set_name__: fget is appended to the type-level chain of every
\* watched name the owner's table holds (from the i-th name on)
WatcherSetName(w, fget, variables, owner, i) ==
    IF GetDescriptors(w, owner) = 0 \/ i > Len(variables) THEN w
    ELSE WatcherSetName(
            WatchOne(w, fget,
                     DictGet(w.tables[GetDescriptors(w, owner)], variables[i])),
            fget, variables, owner, i + 1)

(* A class body is a sequence of declarations: an executor under a name     *)
(* (k = "attr") or a watcher with the names it watches (k = "watch").      *)

AttrDecl(name, ctor, value, inherit_watchers) ==
    [k |-> "attr", name |-> name, ctor |-> ctor, value |-> value,
     inherit_watchers |-> inherit_watchers, constructor |-> 0,
     write_modifiers |-> <<>>, variables |-> <<>>,
     fget |-> UserFn("record", 0)]

\* name = Variable(constructor, value=value); value = Unset: no value given
VariableDecl(name, constructor, value) ==
    [AttrDecl(name, "Variable", value, TRUE) EXCEPT !.constructor = constructor]

\* name = Variable(constructor, value=value, write_modifiers=write_modifiers)
ModifiedVariableDecl(name, constructor, value, write_modifiers) ==
    [VariableDecl(name, constructor, value) EXCEPT
        !.write_modifiers = write_modifiers]

WatchDecl(variables, fget) ==
    [k |-> "watch", name |-> "", ctor |-> "", value |-> NoneV,
     inherit_watchers |-> TRUE, constructor |-> 0, write_modifiers |-> <<>>,
     variables |-> variables, fget |-> fget]

\* Dependent.generate_dependent: the wrapper dependent(obj, name, value,
\* extra) that calls fget(obj)
GenerateDependent(fget) == UserFn("dependent", fget.arg)

\* Watchers.depends(variables) applied to a method of the class body
DependDecl(variables, fget) == WatchDecl(variables, GenerateDependent(fget))

\* the limits, choices and modifiers the declared executors are built with
DeclLimits == <<0, MaxVal - 1>>
DeclChoices == {0, 1}

\* the constructor call in the class body; sid is the new executor's identity
MakeExecutor(sid, d) ==
    [(CASE d.ctor = "LimitedNumber" ->
              LimitedNumber(sid, d.value, DeclLimits, <<UserFn("logger", 0)>>)
        [] d.ctor = "Selector" -> Selector(sid, d.value, DeclChoices)
        [] d.ctor = "Sampler" -> Sampler(sid, d.value)
        [] d.ctor = "Sampler(write_modifiers=[validate])" ->
              [Sampler(sid, d.value) EXCEPT
                  !.write_modifiers = <<UserFn("reject", MaxVal)>>]
        [] d.ctor = "Executor(readonly=True)" ->
              [Executor(d.value, <<>>, <<>>) EXCEPT !.readonly = TRUE]
        [] d.ctor = "Executor(allow_none=False)" ->
              [Executor(d.value, <<>>, <<>>) EXCEPT !.allow_none = FALSE]
        [] d.ctor = "Executor(visible=False)" ->
              [Executor(d.value, <<>>, <<>>) EXCEPT !.visible = FALSE]
        [] d.ctor = "Typed(int)" -> Typed(sid, <<"int">>, d.value, <<>>)
        [] d.ctor = "Typed(Number)" -> Typed(sid, <<"Number">>, d.value, <<>>)
        [] d.ctor = "Typed((int, NoneType))" ->
              Typed(sid, <<"int", "NoneType">>, d.value, <<>>)
        [] d.ctor = "Typed(Number, allow_subclasses=True)" ->
              [Typed(sid, <<"Number">>, d.value, <<>>) EXCEPT
                  !.allow_subclasses = TRUE]
        [] OTHER -> Executor(d.value, <<>>, <<>>))
     EXCEPT !.inherit_watchers = d.inherit_watchers]

----------------------------------------------------------------------------
(* Parameterized instances: the type (__class__), __params__ (name ->      *)
(* executor, in insertion order) and the plain instance attributes.        *)

NewObj(t) ==
    [type |-> t, params |-> EmptyDict, plain |-> [n \in AllNames |-> Unset]]

\* self._descriptors, read through the instance
Descriptors(w, o) == GetDescriptors(w, w.objs[o].type)

Rebind(fs, old, new) ==
    [i \in DOMAIN fs |-> IF fs[i].self = old THEN [fs[i] EXCEPT !.self = new]
                         ELSE fs[i]]

\* deepcopy(executor): the copy is a new object, and the methods bound to
\* the original are bound to the copy; plain functions are not copied
DeepCopy(s, old, new) ==
    [s EXCEPT !.write_modifiers = Rebind(@, old, new),
              !.read_modifiers = Rebind(@, old, new),
              !.configuration = Rebind(@, old, new),
              !.class_executions = Rebind(@, old, new),
              !.executions = Rebind(@, old, new)]

\* the copy of the executor s, appended as the last slot: it holds `value`
\* (the copy of the original's value) and, when the original belonged to the
\* object being copied, it belongs to that object's copy
AppendCopy(w, s, old_owner, new_owner, value) ==
    [w EXCEPT !.slots =
        Append(@, [DeepCopy(w.slots[s], s, Len(w.slots) + 1) EXCEPT
                      !.value = value,
                      !.parent = IF @ = ObjRef(old_owner) /\ old_owner # 0
                                 THEN ObjRef(new_owner) ELSE @])]

\* the copy stored under the key in the __params__ of the object's copy
BindCopy(w, new, key) ==
    [w EXCEPT !.objs[new].params = DictSet(@, key, Len(w.slots))]

RECURSIVE CopySlot(_, _, _, _)
RECURSIVE CopyParams(_, _, _, _)
RECURSIVE DeepCopyObj(_, _)

\* deepcopy of an executor: a Parameterized object it holds is copied with it
CopySlot(w, s, old_owner, new_owner) ==
    IF IsRef(w.slots[s].value)
    THEN AppendCopy(DeepCopyObj(w, Deref(w.slots[s].value)), s, old_owner,
                    new_owner, Ref(Len(w.objs) + 1))
    ELSE AppendCopy(w, s, old_owner, new_owner, w.slots[s].value)

\* the executors of __params__ copied one by one, from the i-th key on
CopyParams(w, old, new, i) ==
    IF i > Len(w.objs[old].params.keys) THEN w
    ELSE CopyParams(
            BindCopy(CopySlot(w, w.objs[old].params.slot[w.objs[old].params.keys[i]],
                              old, new),
                     new, w.objs[old].params.keys[i]),
            old, new, i + 1)

\* deepcopy of a Parameterized object: a new object of the same type with a
\* copy of every executor of __params__; classes are not copied
DeepCopyObj(w, n) ==
    CopyParams([w EXCEPT !.objs = Append(@, [w.objs[n] EXCEPT !.params = EmptyDict])],
               n, Len(w.objs) + 1, 1)

\* executor._first = False; executor.parent = self, on the copy just made
OwnCopy(w, o) ==
    [w EXCEPT !.slots[Len(w.slots)].first = FALSE,
              !.slots[Len(w.slots)].parent = ObjRef(o)]

\* executor = deepcopy(self._descriptors[name]); executor._first = False;
\* executor.parent = self; the executor is the last slot of the result
CloneFor(w, o, proto) == OwnCopy(CopySlot(w, proto, 0, 0), o)

RECURSIVE IsSubtype(_, _, _)
\* issubclass(t, u) for two classes of the model
IsSubtype(w, t, u) ==
    IF t <= 0 THEN FALSE ELSE t = u \/ IsSubtype(w, w.types[t].base, u)

\* issubclass(type(new_value), type(this_obj))
IsInstanceOfTypeOf(w, new_value, this_obj) ==
    IF IsRef(this_obj)
    THEN /\ IsRef(new_value)
         /\ IsSubtype(w, w.objs[Deref(new_value)].type,
                      w.objs[Deref(this_obj)].type)
    ELSE ~IsRef(new_value) /\ ShapeOf(new_value) = ShapeOf(this_obj)

\* an end of the delegated write without the finally clause
VariableDelegateKept(r, executor, saved_modifiers) ==
    IF r.exc # "" THEN Raise(r.w, "ValueError", r.by) ELSE Ok(r.w)

\* the end of the delegated write: the modifiers are restored, and an
\* exception of the write is raised as ValueError
VariableDelegateEnd(r, executor, saved_modifiers) ==
    IF r.exc # ""
    THEN Raise([r.w EXCEPT !.slots[executor].write_modifiers = saved_modifiers],
               "ValueError", r.by)
    ELSE Ok([r.w EXCEPT !.slots[executor].write_modifiers = saved_modifiers])

\* the write delegated to the executor this_obj.__params__['value'], with
\* the Variable's write modifiers in front of the executor's own
VariableDelegate(w, self, executor, new_value) ==
    VariableDelegateEnd(
        SetValue([w EXCEPT !.slots[executor].write_modifiers =
                              w.slots[self].write_modifiers \o @],
                 executor, new_value, 0),
        executor, w.slots[executor].write_modifiers)

\* Variable.value.fset after the read r of this_obj = self.value; when
\* this_obj has no __params__['value'] the finally clause finds `executor`
\* unbound
VariableSetThen(r, self, new_value) ==
    IF r.exc # "" THEN r
    ELSE IF IsInstanceOfTypeOf(r.w, new_value, r.ret)
    THEN SetValue(r.w, self, new_value, 0)
    ELSE IF ~IsRef(r.ret)
    THEN Raise(r.w, "UnboundLocalError", "finally")
    ELSE IF ~DictHas(r.w.objs[Deref(r.ret)].params, "value")
    THEN Raise(r.w, "UnboundLocalError", "finally")
    ELSE VariableDelegate(r.w, self,
                          DictGet(r.w.objs[Deref(r.ret)].params, "value"),
                          new_value)

\* Variable.value.fset
VariableSet(w, self, new_value) ==
    VariableSetThen(GetValue(w, self), self, new_value)

\* executor.value = value: the setter of the executor's class
AssignValue(w, executor, value) ==
    IF w.slots[executor].kind = "Variable" THEN VariableSet(w, executor, value)
    ELSE SetValue(w, executor, value, 0)

\* executor._default_value = self._descriptors[name].value (r is that read);
\* self.__params__[name] = executor; executor.value = value
AttachGeneratorThen(r, o, name, value) ==
    IF r.exc # "" THEN r
    ELSE AssignValue([r.w EXCEPT !.slots[Len(r.w.slots)].default_value = r.ret,
                                 !.objs[o].params = DictSet(@, name, Len(r.w.slots))],
                     Len(r.w.slots), value)

\* BaseParameterized._attach_generator
AttachGenerator(w, o, name, value) ==
    AttachGeneratorThen(
        GetValue(CloneFor(w, o, DictGet(w.tables[Descriptors(w, o)], name)),
                 DictGet(w.tables[Descriptors(w, o)], name)),
        o, name, value)

\* type(value) is a subclass of Parameterized
IsPar(w, value) ==
    IF IsRef(value) THEN IsParameterized(w, w.objs[Deref(value)].type) ELSE FALSE

\* the end of Executor.__set__ after the read r of the executor's value:
\* a value that is no Parameterized object is not written over one that is
ExecutorSetThen(r, executor, value) ==
    IF r.exc # "" THEN r
    ELSE IF IsPar(r.w, r.ret) /\ ~IsPar(r.w, value)
    THEN Raise(r.w, "AttributeError", "non Par")
    ELSE AssignValue(r.w, executor, value)

\* Executor.__set__ of the class attribute `self`
ExecutorSet(w, self, o, value) ==
    IF w.slots[self].readonly THEN Raise(w, "AttributeError", "readonly")
    ELSE IF value = NoneV /\ ~w.slots[self].allow_none
    THEN Raise(w, "AttributeError", "allow_none")
    ELSE IF DictGet(w.objs[o].params, w.slots[self].name) = 0
    THEN Raise(w, "AttributeError", "params")
    ELSE ExecutorSetThen(
            GetValue(w, DictGet(w.objs[o].params, w.slots[self].name)),
            DictGet(w.objs[o].params, w.slots[self].name), value)

\* Executor.__get__ of the class attribute `self`
ExecutorGet(w, self, o) ==
    IF DictGet(w.objs[o].params, w.slots[self].name) # 0
    THEN GetValue(w, DictGet(w.objs[o].params, w.slots[self].name))
    ELSE Ret(w, NoneV)

\* BaseParameterized.__setattr__; a Parameterized object is written to
\* declared names only, so the branch for an undeclared name that is given
\* one is not taken
SetAttr(w, o, key, value) ==
    IF /\ DictHas(w.tables[Descriptors(w, o)], key)
       /\ ~DictHas(w.objs[o].params, key)
    THEN Raise(w, "KeyError", "params")
    ELSE IF /\ DictHas(w.tables[Descriptors(w, o)], key)
            /\ DictGet(w.tables[Descriptors(w, o)], key)
                  = DictGet(w.objs[o].params, key)
    THEN AttachGenerator(w, o, key, value)
    ELSE IF ClassAttr(w, w.objs[o].type, key) # 0
    THEN ExecutorSet(w, ClassAttr(w, w.objs[o].type, key), o, value)
    ELSE Ok([w EXCEPT !.objs[o].plain[key] = value])

\* getattr(obj, name): the class attribute is a data descriptor and wins
GetAttr(w, o, name) ==
    IF ClassAttr(w, w.objs[o].type, name) # 0
    THEN ExecutorGet(w, ClassAttr(w, w.objs[o].type, name), o)
    ELSE IF w.objs[o].plain[name] # Unset THEN Ret(w, w.objs[o].plain[name])
    ELSE Raise(w, "AttributeError", "getattr")

RECURSIVE InitLoop(_, _, _, _, _)
RECURSIVE InitLoopThen(_, _, _, _, _)
\* the loop of BaseParameterized.__init__ over self._descriptors.items();
\* kwargs[name] = Unset: the argument is not given
InitLoop(w, o, names, i, kwargs) ==
    IF i > Len(names) THEN Ok(w)
    ELSE IF kwargs[names[i]] = Unset \/ kwargs[names[i]] = NoneV
    THEN InitLoop([w EXCEPT !.objs[o].params =
                       DictSet(@, names[i],
                               DictGet(w.tables[Descriptors(w, o)], names[i]))],
                  o, names, i + 1, kwargs)
    ELSE InitLoopThen(AttachGenerator(w, o, names[i], kwargs[names[i]]),
                      o, names, i, kwargs)

InitLoopThen(r, o, names, i, kwargs) ==
    IF r.exc # "" THEN r ELSE InitLoop(r.w, o, names, i + 1, kwargs)

\* the end of __init__: arguments that name no descriptor raise Warning;
\* when __init__ raises the caller gets no object: the instance is dropped
ConstructEnd(r, o, names, kwargs) ==
    IF r.exc # ""
    THEN Raise([r.w EXCEPT !.objs = SubSeq(@, 1, o - 1)], r.exc, r.by)
    ELSE IF {n \in AllNames : kwargs[n] # Unset} \ Range(names) # {}
    THEN Raise([r.w EXCEPT !.objs = SubSeq(@, 1, o - 1)], "Warning", "kwargs")
    ELSE Ok(r.w)

\* BaseParameterized.__init__(**kwargs) on a new instance of type t
Construct(w, t, kwargs) ==
    ConstructEnd(InitLoop([w EXCEPT !.objs = Append(@, NewObj(t))],
                          Len(w.objs) + 1, w.tables[GetDescriptors(w, t)].keys,
                          1, kwargs),
                 Len(w.objs) + 1, w.tables[GetDescriptors(w, t)].keys, kwargs)

\* the keyword arguments of a call: Unset under the names not given
NoKwargs == [n \in AllNames |-> Unset]

Kwarg(name, value) == [NoKwargs EXCEPT ![name] = value]

\* Variable._make_variable: value = constructor(value=...) when the
\* constructor's table knows `value` and the declaration gives one
MakeVariable(w, d) ==
    Construct(w, d.constructor,
              IF d.value = Unset THEN NoKwargs ELSE Kwarg("value", d.value))

\* Variable.__init__ after _make_variable built the object, the last one of
\* r.w: the executor holds it, and the namespace of t holds the executor
EvalVariable(r, t, d) ==
    [r.w EXCEPT !.slots = Append(@, [Executor(Ref(Len(r.w.objs)),
                                              d.write_modifiers, <<>>)
                                        EXCEPT !.kind = "Variable"]),
                !.types[t].attrs[d.name] = Len(r.w.slots) + 1]

RECURSIVE EvalBody(_, _, _, _)
\* evaluating the class body: every executor is constructed and stored in
\* the namespace under its name
EvalBody(w, t, decls, i) ==
    IF i > Len(decls) THEN w
    ELSE IF decls[i].k = "attr" /\ decls[i].ctor = "Variable"
    THEN EvalBody(EvalVariable(MakeVariable(w, decls[i]), t, decls[i]),
                  t, decls, i + 1)
    ELSE IF decls[i].k = "attr"
    THEN EvalBody([w EXCEPT
                     !.slots = Append(@, MakeExecutor(Len(w.slots) + 1, decls[i])),
                     !.types[t].attrs[decls[i].name] = Len(w.slots) + 1],
                  t, decls, i + 1)
    ELSE EvalBody([w EXCEPT !.types[t].watchers =
                                Append(@, [variables |-> decls[i].variables,
                                           fget |-> decls[i].fget])],
                  t, decls, i + 1)

RECURSIVE SetNames(_, _, _, _)
\* type.__new__ calls __set_name__ of every attribute, in definition order
SetNames(w, t, decls, i) ==
    IF i > Len(decls) THEN w
    ELSE IF decls[i].k = "attr"
    THEN SetNames(ExecutorSetName(w, w.types[t].attrs[decls[i].name], t,
                                  decls[i].name),
                  t, decls, i + 1)
    ELSE SetNames(WatcherSetName(w, decls[i].fget, decls[i].variables, t, 1),
                  t, decls, i + 1)

\* class qualname(base): decls
DefineClass(w, qualname, base, decls) ==
    SetNames(EvalBody([w EXCEPT !.types = Append(@, NewType(qualname, base))],
                      Len(w.types) + 1, decls, 1),
             Len(w.types) + 1, decls, 1)

\* a min setter that validates the current value against the new bound
SetMinChecked(w, self, value) ==
    IF w.slots[self].value < value THEN Raise(w, "ValueError", "min")
    ELSE Ok([w EXCEPT !.slots[self].limits = <<value, @[2]>>])

\* LimitedNumber.min.fset: self._limits = (value, self._limits[1])
SetMin(w, self, value) ==
    Ok([w EXCEPT !.slots[self].limits = <<value, @[2]>>])

\* LimitedNumber.max.fset: self._limits = (self._limits[0], value)
SetMax(w, self, value) ==
    Ok([w EXCEPT !.slots[self].limits = <<@[1], value>>])

\* Watchers.register
Register(w, instance, variable, callable_function) ==
    IF DictGet(w.objs[instance].params, variable) = 0
    THEN Raise(w, "AttributeError", "register")
    ELSE Ok([w EXCEPT
               !.slots[DictGet(w.objs[instance].params, variable)].executions =
                   Append(@, callable_function)])

\* a synthesis of the per-instance type on every call
SpecializeAlways(w, inst) ==
    [w EXCEPT
        !.types = Append(@, [NewType(w.types[w.objs[inst].type].qualname,
                                     w.objs[inst].type)
                                EXCEPT !.perinstance = TRUE]),
        !.objs[inst].type = Len(w.types) + 1]

\* the synthesis of the per-instance type, unless the instance's type
\* already has the __perinstance mark
Specialize(w, inst) ==
    IF ~HasPerInstance(w, w.objs[inst].type)
    THEN [w EXCEPT
            !.types = Append(@, [NewType(w.types[w.objs[inst].type].qualname,
                                         w.objs[inst].type)
                                    EXCEPT !.perinstance = TRUE]),
            !.objs[inst].type = Len(w.types) + 1]
    ELSE w

\* inst._descriptors[name] = par; inst.__params__[name] = par
RegisterPar(w, inst, name, par) ==
    [w EXCEPT !.tables[Descriptors(w, inst)] = DictSet(@, name, par),
              !.objs[inst].params = DictSet(@, name, par)]

\* setattr(cls, name, par)
SetClassAttr(w, cls, name, par) ==
    [w EXCEPT !.types[cls].attrs[name] = par]

\* the rest of add_par_to_class once the instance has its type cls
AddParToClassThen(w, inst, name, par) ==
    SetClassAttr(
        ExecutorSetName(RegisterPar(w, inst, name, par), par,
                        w.objs[inst].type, name),
        w.objs[inst].type, name, par)

\* add_par_to_class(inst, name, par)
AddParToClass(w, inst, name, par) ==
    AddParToClassThen(Specialize(w, inst), inst, name, par)

\* Parameterized.attach_parameter(name, Executor(value=value))
AttachParameter(w, o, name, value) ==
    Ok(AddParToClass([w EXCEPT !.slots = Append(@, Executor(value, <<>>, <<>>))],
                     o, name, Len(w.slots) + 1))

\* the visible names of __params__, in insertion order
VisibleKeys(w, o) ==
    SelectSeq(w.objs[o].params.keys,
              LAMBDA k : w.slots[w.objs[o].params.slot[k]].visible)

\* the visible executors of __params__ in insertion order, and nothing of
\* the objects they hold
ParametersShallow(w, o) ==
    [i \in DOMAIN VisibleKeys(w, o) |-> w.objs[o].params.slot[VisibleKeys(w, o)[i]]]

RECURSIVE ParametersFrom(_, _, _)
\* the loop of BaseParameterized.parameters over __params__.items(), from
\* the i-th item on: an executor that is not visible is skipped; a visible
\* one is followed by the parameters of the object it holds, if it holds one
ParametersFrom(w, o, i) ==
    IF i > Len(w.objs[o].params.keys) THEN <<>>
    ELSE IF ~w.slots[w.objs[o].params.slot[w.objs[o].params.keys[i]]].visible
    THEN ParametersFrom(w, o, i + 1)
    ELSE IF IsRef(w.slots[w.objs[o].params.slot[w.objs[o].params.keys[i]]].value)
    THEN <<w.objs[o].params.slot[w.objs[o].params.keys[i]]>>
            \o ParametersFrom(
                   w, Deref(w.slots[w.objs[o].params.slot[
                                       w.objs[o].params.keys[i]]].value), 1)
            \o ParametersFrom(w, o, i + 1)
    ELSE <<w.objs[o].params.slot[w.objs[o].params.keys[i]]>>
            \o ParametersFrom(w, o, i + 1)

\* BaseParameterized.parameters; the reads item[1].value run no read
\* modifier that writes, and no object holds itself
Parameters(w, o) == ParametersFrom(w, o, 1)

----------------------------------------------------------------------------
(* BaseParameterized.parameters, one step of the interpreter at a time.    *)
(* A frame is one activation of the property: the object, the index of the *)
(* item of `mine` the loop is at, and the list `re` built so far.  The     *)
(* interpreter raises RecursionError in the activation that would exceed   *)
(* its recursion limit.                                                    *)

RecursionLimit == MaxObjs + 2

Frame(o) == [obj |-> o, i |-> 1, re |-> <<>>]

NoCall == [status |-> "idle", target |-> 0, frames |-> <<>>, result |-> <<>>,
           depth |-> 0]

\* obj.parameters is called
EnterParameters(o) ==
    [status |-> "running", target |-> o, frames |-> <<Frame(o)>>,
     result |-> <<>>, depth |-> 1]

\* return re: the caller does re += ... and goes on with its next item; the
\* outermost activation hands the list to the caller of the property
ReturnRe(c) ==
    IF Len(c.frames) = 1
    THEN [c EXCEPT !.status = "returned", !.result = c.frames[1].re,
                   !.frames = <<>>]
    ELSE [c EXCEPT
            !.frames = [SubSeq(c.frames, 1, Len(c.frames) - 1) EXCEPT
                           ![Len(c.frames) - 1].re = @ \o c.frames[Len(c.frames)].re,
                           ![Len(c.frames) - 1].i = @ + 1]]

\* re.append(item[1]) for an item that holds no object
AppendItem(c, sid) ==
    [c EXCEPT !.frames[Len(c.frames)].re = Append(@, sid),
              !.frames[Len(c.frames)].i = @ + 1]

\* a descent that leaves out an object whose activation is in progress
DescendUnlessActive(c, sid, held) ==
    IF \E k \in DOMAIN c.frames : c.frames[k].obj = held
    THEN AppendItem(c, sid)
    ELSE IF Len(c.frames) >= RecursionLimit
    THEN [c EXCEPT !.status = "RecursionError", !.frames = <<>>]
    ELSE [c EXCEPT !.frames = Append([@ EXCEPT ![Len(c.frames)].re = Append(@, sid)],
                                     Frame(held)),
                   !.depth = IF Len(c.frames) + 1 > @ THEN Len(c.frames) + 1
                             ELSE @]

\* re.append(item[1]); item[1].value.parameters: a new activation, or
\* RecursionError at the recursion limit, which no activation catches
Descend(c, sid, held) ==
    IF Len(c.frames) >= RecursionLimit
    THEN [c EXCEPT !.status = "RecursionError", !.frames = <<>>]
    ELSE [c EXCEPT !.frames = Append([@ EXCEPT ![Len(c.frames)].re = Append(@, sid)],
                                     Frame(held)),
                   !.depth = IF Len(c.frames) + 1 > @ THEN Len(c.frames) + 1
                             ELSE @]

\* the body of the loop for the item sid of the innermost activation
LoopBody(w, c, sid) ==
    IF ~w.slots[sid].visible
    THEN [c EXCEPT !.frames[Len(c.frames)].i = @ + 1]
    ELSE IF IsRef(w.slots[sid].value)
    THEN Descend(c, sid, Deref(w.slots[sid].value))
    ELSE AppendItem(c, sid)

\* one step of the innermost activation of the property
ParametersStep(w, c) ==
    IF c.frames[Len(c.frames)].i
          > Len(w.objs[c.frames[Len(c.frames)].obj].params.keys)
    THEN ReturnRe(c)
    ELSE LoopBody(w, c,
                  w.objs[c.frames[Len(c.frames)].obj].params.slot[
                      w.objs[c.frames[Len(c.frames)].obj].params.keys[
                          c.frames[Len(c.frames)].i]])

----------------------------------------------------------------------------
(* The classes the instances of the model are built from:                  *)
(*   class T(Parameterized):                                               *)
(*       a = LimitedNumber(value=0, limits=(0, MaxVal - 1),                *)
(*                         write_modifiers=[logger])                       *)
(*       s = Selector(value=0, choices=[0, 1])                             *)
(*       r = Sampler(value=0, sampler=...)                                 *)
(*       @Watchers.watch(['a'])                                            *)
(*       def clamp(self, name, value, extra): ...                          *)

ClampAt == MaxVal - 2

TBody == <<AttrDecl("a", "LimitedNumber", 0, TRUE),
           AttrDecl("s", "Selector", 0, TRUE),
           AttrDecl("r", "Sampler", 0, TRUE),
           WatchDecl(<<"a">>, UserFn("clamp", ClampAt))>>

TWorld == DefineClass(EmptyWorld, "T", 0, TBody)

----------------------------------------------------------------------------
(* What the caller of the last operation saw; pre_* describe the slot      *)
(* bound under the name when the operation began.                          *)

NoLast == [op |-> "", obj |-> 0, name |-> "", val |-> NoneV, exc |-> "",
           by |-> "", ret |-> NoneV, pre_slot |-> 0, pre_value |-> NoneV,
           pre_prev |-> NoneV, pre_first |-> FALSE]

Bound(o, name) ==
    IF o \in DOMAIN objs THEN DictGet(objs[o].params, name) ELSE 0

Observe(op, o, name, val, r) ==
    [op |-> op, obj |-> o, name |-> name, val |-> val, exc |-> r.exc,
     by |-> r.by, ret |-> r.ret, pre_slot |-> Bound(o, name),
     pre_value |-> IF Bound(o, name) = 0 THEN NoneV
                   ELSE slots[Bound(o, name)].value,
     pre_prev |-> IF Bound(o, name) = 0 THEN NoneV
                  ELSE slots[Bound(o, name)].previous_value,
     pre_first |-> IF Bound(o, name) = 0 THEN FALSE
                   ELSE slots[Bound(o, name)].first]

\* the operation op(o, name, val) ended with the result r
Commit(op, o, name, val, r) ==
    /\ slots' = r.w.slots
    /\ objs' = r.w.objs
    /\ types' = r.w.types
    /\ tables' = r.w.tables
    /\ log' = r.w.log
    /\ last' = Observe(op, o, name, val, r)
    /\ steps' = steps + 1
    /\ call' = call

Start(w) ==
    /\ slots = w.slots
    /\ objs = w.objs
    /\ types = w.types
    /\ tables = w.tables
    /\ log = <<>>
    /\ last = NoLast
    /\ steps = 0
    /\ call = NoCall

ObjIds == DOMAIN objs

\* the user functions handed to Watchers.register
UserFns == {UserFn("record", 0), UserFn("raise", 0),
            UserFn("reject", ClampAt + 1)}

----------------------------------------------------------------------------
(* Spec: one instance x = T(); attribute writes and watcher registration   *)
(* on its LimitedNumber attribute a and its Selector attribute s.          *)

SlotNames == {"a", "s"}

Init == Start(Construct(TWorld, 1, NoKwargs).w)

\* obj.name = v
WriteAttr(o, name, v) ==
    /\ steps < MaxSteps
    /\ Commit("write", o, name, v, SetAttr(World(NoneV), o, name, v))

\* Watchers.register(obj, name, fn)
RegisterWatcher(o, name, fn) ==
    /\ steps < MaxSteps
    /\ Bound(o, name) # 0 => Len(slots[Bound(o, name)].executions) < MaxReg
    /\ Commit("register", o, name, NoneV, Register(World(NoneV), o, name, fn))

Next ==
    \/ \E o \in ObjIds, name \in SlotNames, v \in ValuesOrNone :
          WriteAttr(o, name, v)
    \/ \E o \in ObjIds, name \in SlotNames, fn \in UserFns :
          RegisterWatcher(o, name, fn)

Spec == Init /\ [][Next]_vars

----------------------------------------------------------------------------
(* SpecObj: instances of T are constructed, written, read, watched and     *)
(* given a new parameter n.  A watcher registered for instance o is the    *)
(* function record_o: its arg names the instance it was registered for.    *)

ObjValues == {ClampAt, MaxVal}

InitObj == Start(TWorld)

\* T() when name = "", T(name=v) otherwise; the observation names the
\* instance being constructed and the keyword supplied
NewObject(name, v) ==
    /\ steps < MaxSteps
    /\ Len(objs) < MaxObjs
    /\ Commit("new", Len(objs) + 1, name, v,
              Construct(World(NoneV), 1,
                        IF name = "" THEN NoKwargs ELSE Kwarg(name, v)))

\* obj.name, with smp what a sampler returns if one is called
ReadAttr(o, name, smp) ==
    /\ steps < MaxSteps
    /\ Commit("read", o, name, NoneV, GetAttr(World(smp), o, name))

\* obj.attach_parameter(name, Executor(value=v))
Attach(o, name, v) ==
    /\ steps < MaxSteps
    /\ Commit("attach", o, name, v, AttachParameter(World(NoneV), o, name, v))

NextObj ==
    \/ \E name \in {"", "a"}, v \in ObjValues : NewObject(name, v)
    \/ \E o \in ObjIds, name \in {"a", "n"}, v \in ObjValues : WriteAttr(o, name, v)
    \/ \E o \in ObjIds, smp \in ObjValues : ReadAttr(o, "r", smp)
    \/ \E o \in ObjIds : RegisterWatcher(o, "a", UserFn("record", o))
    \/ \E o \in ObjIds, v \in ObjValues : Attach(o, "n", v)

SpecObj == InitObj /\ [][NextObj]_vars

----------------------------------------------------------------------------
(* SpecTypes: subtypes of T, and subtypes of those, are declared.  A class *)
(* body declares up to MaxDecls attributes: a redefines the inherited      *)
(* attribute, n is new.  The __qualname__ of a class is the name in its    *)
(* class statement, which need not differ from the name of its base.       *)

QualNames == {"T", "U"}

Decls == {AttrDecl("a", "Executor", 0, TRUE),
          AttrDecl("a", "Executor", 0, FALSE),
          AttrDecl("n", "Executor", 0, TRUE)}

Bodies == UNION {[1..k -> Decls] : k \in 0..MaxDecls}

InitTypes == Start(TWorld)

\* class qualname(base): decls
DefineSubtype(qualname, base, decls) ==
    /\ Len(types) < MaxTypes
    /\ Commit("class", 0, qualname, base,
              Ok(DefineClass(World(NoneV), qualname, base, decls)))

NextTypes ==
    \E qualname \in QualNames, base \in DOMAIN types, decls \in Bodies :
        DefineSubtype(qualname, base, decls)

SpecTypes == InitTypes /\ [][NextTypes]_vars

----------------------------------------------------------------------------
(* SpecWatch: classes with attributes a and n, a full watcher of a and a   *)
(* dependent watcher of a and n are declared, in every order of the class  *)
(* body; instances are constructed and written.  The functions a class     *)
(* declares are its own: their arg is made from the id of the class.       *)

FullFn(t) == UserFn("record", 2 * t)

DepFn(t) == UserFn("record", 2 * t + 1)

WatchDecls(t) == {AttrDecl("a", "Executor", 0, TRUE),
                  AttrDecl("a", "Executor", 0, FALSE),
                  AttrDecl("n", "Executor", 0, TRUE),
                  WatchDecl(<<"a">>, FullFn(t)),
                  DependDecl(<<"a", "n">>, DepFn(t))}

\* a namespace holds one object under a name
OneNamespace(body) ==
    \A i \in DOMAIN body : \A j \in DOMAIN body :
        (i # j) => /\ body[i] # body[j]
                   /\ (body[i].k = "attr" /\ body[j].k = "attr")
                         => body[i].name # body[j].name

WatchBodies(t) ==
    {body \in UNION {[1..k -> WatchDecls(t)] : k \in 0..MaxDecls} :
        OneNamespace(body)}

InitWatch == Start(EmptyWorld)

\* the names of the classes, in the order they are declared
ClassNames == <<"T", "U", "V", "W">>

\* class qualname(base): decls   (base 0: Parameterized)
DeclareClass(qualname, base, decls) ==
    /\ steps < MaxSteps
    /\ Len(types) < MaxClasses
    /\ DefineSubtype(qualname, base, decls)

\* a class without executors has no _descriptors for __init__ to read
ConstructAny(w, t, kwargs) ==
    IF GetDescriptors(w, t) = 0 THEN Raise(w, "AttributeError", "_descriptors")
    ELSE Construct(w, t, kwargs)

\* t()
NewInstance(t) ==
    /\ steps < MaxSteps
    /\ Len(objs) < MaxObjs
    /\ Commit("new", Len(objs) + 1, "", NoneV,
              ConstructAny(World(NoneV), t, NoKwargs))

NextWatch ==
    \/ \E base \in {0} \cup DOMAIN types :
          \E decls \in WatchBodies(Len(types) + 1) :
             DeclareClass(ClassNames[Len(types) + 1], base, decls)
    \/ \E t \in DOMAIN types : NewInstance(t)
    \/ \E o \in ObjIds, name \in {"a", "n"}, v \in ObjValues :
          WriteAttr(o, name, v)

SpecWatch == InitWatch /\ [][NextWatch]_vars

----------------------------------------------------------------------------
(* SpecGuard: instances of                                                 *)
(*   class G(Parameterized):                                               *)
(*       a = Executor(value=0, readonly=True)                              *)
(*       n = Executor(value=0, allow_none=False)                           *)
(* are constructed (also with the keyword s, which G does not declare) and *)
(* written, with numbers and with None.                                    *)

GBody == <<AttrDecl("a", "Executor(readonly=True)", 0, TRUE),
           AttrDecl("n", "Executor(allow_none=False)", 0, TRUE)>>

GWorld == DefineClass(EmptyWorld, "G", 0, GBody)

GuardValues == {NoneV, ClampAt}

InitGuard == Start(GWorld)

NextGuard ==
    \/ \E name \in {"", "a", "n", "s"}, v \in GuardValues : NewObject(name, v)
    \/ \E o \in ObjIds, name \in {"a", "n"}, v \in GuardValues :
          WriteAttr(o, name, v)

SpecGuard == InitGuard /\ [][NextGuard]_vars

----------------------------------------------------------------------------
(* SpecVar: attributes that hold a nested object.                          *)
(*   class NB(BaseParameterized):                                          *)
(*       value = LimitedNumber(value=0, limits=(0, MaxVal - 1), ...)       *)
(*   class NP(Parameterized):                                              *)
(*       value = Executor(value=0)                                         *)
(*   class A(Parameterized):                                               *)
(*       a = Variable(NB, value=1)                                         *)
(*       n = Variable(NP)                                                  *)
(* with x = A() and two free objects NB(value=1), NP(value=1).             *)

NBBody == <<AttrDecl("value", "LimitedNumber", 0, TRUE)>>

NPBody == <<AttrDecl("value", "Executor", 0, TRUE)>>

ABody == <<VariableDecl("a", 1, 1), VariableDecl("n", 2, Unset)>>

VWorld ==
    DefineClass(DefineClass(DefineClass(EmptyWorld, "NB", BaseParameterized,
                                        NBBody),
                            "NP", 0, NPBody),
                "A", 0, ABody)

InitVar ==
    Start(Construct(Construct(Construct(VWorld, 3, NoKwargs).w,
                              1, Kwarg("value", 1)).w,
                    2, Kwarg("value", 1)).w)

\* the instances of A, and the objects of the nested classes
Holders == {o \in ObjIds : types[objs[o].type].qualname = "A"}
Nested == ObjIds \ Holders

ScalarValues == {1, MaxVal}

NextVar ==
    \/ \E o \in Holders, name \in {"a", "n"}, v \in ScalarValues :
          WriteAttr(o, name, v)
    \/ \E o \in Holders, name \in {"a", "n"}, m \in Nested :
          WriteAttr(o, name, Ref(m))
    \/ \E o \in Holders, name \in {"a", "n"} : ReadAttr(o, name, NoneV)

SpecVar == InitVar /\ [][NextVar]_vars

----------------------------------------------------------------------------
(* SpecSampler: instances of a class whose attribute generates its value   *)
(* on every read and validates what is written.                            *)
(*   def validate(obj, name, value, extra): raise if value == MaxVal       *)
(*   class S(Parameterized):                                               *)
(*       r = Sampler(value=0, sampler=..., write_modifiers=[validate])     *)

SBody == <<AttrDecl("r", "Sampler(write_modifiers=[validate])", 0, TRUE)>>

SWorld == DefineClass(EmptyWorld, "S", 0, SBody)

InitSampler == Start(SWorld)

\* what the sampler function returns
SampleValues == {1, ClampAt + 1, MaxVal}

\* the watchers registered on r: one observes, one rejects ClampAt + 1
SamplerFns == {UserFn("record", 0), UserFn("reject", ClampAt + 1)}

\* obj.name while the sampler function returns smp (observed as val)
ReadSampled(o, name, smp) ==
    /\ steps < MaxSteps
    /\ Commit("read", o, name, smp, GetAttr(World(smp), o, name))

NextSampler ==
    \/ \E name \in {"", "r"} : NewObject(name, 1)
    \/ \E o \in ObjIds, smp \in SampleValues : ReadSampled(o, "r", smp)
    \/ \E o \in ObjIds, fn \in SamplerFns : RegisterWatcher(o, "r", fn)

SpecSampler == InitSampler /\ [][NextSampler]_vars

----------------------------------------------------------------------------
(* SpecNest: objects that hold objects.                                    *)
(*   class P(Parameterized):                                               *)
(*       a = Executor(value=0)                                             *)
(*       n = Executor()                                                    *)
(*       s = Executor(value=0, visible=False)                              *)
(*       r = Executor(value=0)                                             *)
(*   class Q(Parameterized):                                               *)
(*       n = Executor()                                                    *)
(*       s = Executor(visible=False)                                       *)
(*       a = Executor(value=0)                                             *)
(* An object is stored in n or in s of another one, at construction or by  *)
(* a write; no object is stored in an object it holds.                     *)

PBody == <<AttrDecl("a", "Executor", 0, TRUE),
           AttrDecl("n", "Executor", NoneV, TRUE),
           AttrDecl("s", "Executor(visible=False)", 0, TRUE),
           AttrDecl("r", "Executor", 0, TRUE)>>

QBody == <<AttrDecl("n", "Executor", NoneV, TRUE),
           AttrDecl("s", "Executor(visible=False)", NoneV, TRUE),
           AttrDecl("a", "Executor", 0, TRUE)>>

NestWorld == DefineClass(DefineClass(EmptyWorld, "P", 0, PBody), "Q", 0, QBody)

InitNest == Start(NestWorld)

\* the objects held by the executors of o
Held(o) ==
    {Deref(slots[objs[o].params.slot[k]].value) :
        k \in {n \in Range(objs[o].params.keys) :
                  IsRef(slots[objs[o].params.slot[n]].value)}}

RECURSIVE Reach(_)
\* o and the objects held, directly or not, by o
Reach(o) == {o} \cup UNION {Reach(m) : m \in Held(o)}

\* t() when name = "", t(name=m) otherwise
NewNested(t, name, m) ==
    /\ steps < MaxSteps
    /\ Len(objs) < MaxObjs + 1
    /\ Commit("new", Len(objs) + 1, name, IF name = "" THEN NoneV ELSE Ref(m),
              Construct(World(NoneV), t,
                        IF name = "" THEN NoKwargs ELSE Kwarg(name, Ref(m))))

\* o.name = m, for an object m that does not hold o
Nest(o, name, m) ==
    /\ o \notin Reach(m)
    /\ WriteAttr(o, name, Ref(m))

NextNest ==
    \/ \E t \in DOMAIN types : NewNested(t, "", 0)
    \/ \E t \in DOMAIN types, m \in ObjIds : NewNested(t, "n", m)
    \/ \E o \in ObjIds, name \in {"n", "s"}, m \in ObjIds : Nest(o, name, m)
    \/ \E o \in ObjIds : WriteAttr(o, "a", 1)

SpecNest == InitNest /\ [][NextNest]_vars

----------------------------------------------------------------------------
(* SpecLimits: one instance x = L() of                                     *)
(*   class L(Parameterized):                                               *)
(*       a = LimitedNumber(value=0, limits=(0, MaxVal - 1),                *)
(*                         write_modifiers=[logger])                       *)
(* whose attribute is written and whose limits are changed through         *)
(* x.pars['a'].min and x.pars['a'].max.                                    *)

LBody == <<AttrDecl("a", "LimitedNumber", 0, TRUE)>>

LWorld == DefineClass(EmptyWorld, "L", 0, LBody)

InitLimits == Start(Construct(LWorld, 1, NoKwargs).w)

\* the bounds given to the setters
MinValues == {0, 1}
MaxValues == {1, MaxVal - 1}

\* o.pars[name].min = v
ChangeMin(o, name, v) ==
    /\ steps < MaxSteps
    /\ Commit("min", o, name, v, SetMin(World(NoneV), Bound(o, name), v))

\* o.pars[name].max = v
ChangeMax(o, name, v) ==
    /\ steps < MaxSteps
    /\ Commit("max", o, name, v, SetMax(World(NoneV), Bound(o, name), v))

NextLimits ==
    \/ \E o \in ObjIds, v \in Values : WriteAttr(o, "a", v)
    \/ \E o \in ObjIds, v \in MinValues : ChangeMin(o, "a", v)
    \/ \E o \in ObjIds, v \in MaxValues : ChangeMax(o, "a", v)

SpecLimits == InitLimits /\ [][NextLimits]_vars

----------------------------------------------------------------------------
(* SpecTyped: one instance x = Y() of                                      *)
(*   class Y(Parameterized):                                               *)
(*       a = Typed(allowed_types=int, value=0)                             *)
(*       n = Typed(allowed_types=Number, value=0)                          *)
(*       s = Typed(allowed_types=(int, type(None)), value=0)               *)
(*       r = Typed(allowed_types=Number, allow_subclasses=True, value=0)   *)
(* whose attributes are written with a number or with None.                *)

YBody == <<AttrDecl("a", "Typed(int)", 0, TRUE),
           AttrDecl("n", "Typed(Number)", 0, TRUE),
           AttrDecl("s", "Typed((int, NoneType))", 0, TRUE),
           AttrDecl("r", "Typed(Number, allow_subclasses=True)", 0, TRUE)>>

YWorld == DefineClass(EmptyWorld, "Y", 0, YBody)

InitTyped == Start(Construct(YWorld, 1, NoKwargs).w)

TypedValues == {NoneV, 1}

NextTyped ==
    \E o \in ObjIds, name \in {"a", "n", "s", "r"}, v \in TypedValues :
        WriteAttr(o, name, v)

SpecTyped == InitTyped /\ [][NextTyped]_vars

----------------------------------------------------------------------------
(* SpecEarly: instances of a class whose watcher of a reads n, declared    *)
(* after a, as Descriptor._update_display_name reads display_name when     *)
(* name is written.                                                        *)
(*   class E(Parameterized):                                               *)
(*       a = Executor(value=0)                                             *)
(*       n = Executor(value=ClampAt)                                       *)
(*       @Watchers.watch(['a'])                                            *)
(*       def update(self, name, value, extra): ... self.n ...              *)

EBody == <<AttrDecl("a", "Executor", 0, TRUE),
           AttrDecl("n", "Executor", ClampAt, TRUE),
           WatchDecl(<<"a">>, UserFn("read_n", 0))>>

EWorld == DefineClass(EmptyWorld, "E", 0, EBody)

InitEarly == Start(EWorld)

NextEarly ==
    \/ \E name \in {"", "a", "n"}, v \in ObjValues : NewObject(name, v)
    \/ \E o \in ObjIds, name \in {"a", "n"}, v \in ObjValues :
          WriteAttr(o, name, v)

SpecEarly == InitEarly /\ [][NextEarly]_vars

----------------------------------------------------------------------------
(* SpecSide: one instance x = D() of a class whose watcher of a writes     *)
(* the new value to n; watchers that observe or reject are registered on   *)
(* a.                                                                      *)
(*   class D(Parameterized):                                               *)
(*       a = Executor(value=0)                                             *)
(*       n = Executor(value=0)                                             *)
(*       @Watchers.watch(['a'])                                            *)
(*       def update(self, name, value, extra): self.n = value              *)

DBody == <<AttrDecl("a", "Executor", 0, TRUE),
           AttrDecl("n", "Executor", 0, TRUE),
           WatchDecl(<<"a">>, UserFn("set_n", 0))>>

DWorld == DefineClass(EmptyWorld, "D", 0, DBody)

InitSide == Start(Construct(DWorld, 1, NoKwargs).w)

NextSide ==
    \/ \E o \in ObjIds, v \in Values : WriteAttr(o, "a", v)
    \/ \E o \in ObjIds, fn \in UserFns : RegisterWatcher(o, "a", fn)

SpecSide == InitSide /\ [][NextSide]_vars

----------------------------------------------------------------------------
(* SpecDuring: one instance x = T(); the watchers registered on a read     *)
(* extra.previous_value and extra.value while the write is under way.      *)

PeekFn == UserFn("peek", 0)

InitDuring == Start(Construct(TWorld, 1, NoKwargs).w)

NextDuring ==
    \/ \E o \in ObjIds, v \in Values : WriteAttr(o, "a", v)
    \/ \E o \in ObjIds : RegisterWatcher(o, "a", PeekFn)

SpecDuring == InitDuring /\ [][NextDuring]_vars

----------------------------------------------------------------------------
(* SpecMod: one instance x = A() of                                        *)
(*   class NB(BaseParameterized):                                          *)
(*       value = LimitedNumber(value=0, limits=..., write_modifiers=[Logger]) *)
(*   class A(Parameterized):                                               *)
(*       a = Variable(NB, value=1, write_modifiers=[m])                    *)
(*       n = Variable(NB, write_modifiers=[check])                         *)
(* where m records its call and check raises for the value ClampAt + 1;    *)
(* numbers are written to a and n.                                         *)

VariableLogger == UserFn("record", 1)

MBody == <<ModifiedVariableDecl("a", 1, 1, <<VariableLogger>>),
           ModifiedVariableDecl("n", 1, Unset,
                                <<UserFn("reject", ClampAt + 1)>>)>>

MWorld ==
    DefineClass(DefineClass(EmptyWorld, "NB", BaseParameterized, NBBody),
                "A", 0, MBody)

InitMod == Start(Construct(MWorld, 2, NoKwargs).w)

NextMod ==
    \E o \in Holders, name \in {"a", "n"}, v \in Values : WriteAttr(o, name, v)

SpecMod == InitMod /\ [][NextMod]_vars

----------------------------------------------------------------------------
(* SpecAttach: instances of T, made by T() or by type(x)() for an instance *)
(* x, and attach_parameter calls on them under the names n and value.      *)

\* type(x)()
NewLike(x) ==
    /\ steps < MaxSteps
    /\ Len(objs) < MaxObjs
    /\ Commit("new", Len(objs) + 1, "", NoneV,
              Construct(World(NoneV), objs[x].type, NoKwargs))

InitAttach == Start(TWorld)

NextAttach ==
    \/ NewObject("", NoneV)
    \/ \E x \in ObjIds : NewLike(x)
    \/ \E o \in ObjIds, name \in {"n", "value"}, v \in ObjValues :
          Attach(o, name, v)
    \/ \E o \in ObjIds, v \in ObjValues : WriteAttr(o, "n", v)

SpecAttach == InitAttach /\ [][NextAttach]_vars

----------------------------------------------------------------------------
(* SpecCycle: objects of                                                   *)
(*   class P(Parameterized):                                               *)
(*       a = Executor(value=0)                                             *)
(*       n = Executor(value=None)                                          *)
(*       s = Executor(value=None, visible=False)                           *)
(*       r = Executor(value=0)                                             *)
(* are stored in the attribute n of one another and of themselves, and in  *)
(* their own attribute s, which is not visible;                            *)
(* then obj.parameters is evaluated, one step of the interpreter at a time.*)
(* An evaluation that has begun goes on until it returns or raises.        *)

InitCycle == Start(DefineClass(EmptyWorld, "P", 0, PBody))

\* o.name = m, for any object m
Store(o, name, m) ==
    /\ call.status = "idle"
    /\ WriteAttr(o, name, Ref(m))

\* P()
NewP ==
    /\ call.status = "idle"
    /\ NewNested(1, "", 0)

\* obj.parameters: the call
CallParameters(o) ==
    /\ call.status = "idle"
    /\ steps < MaxSteps + 1
    /\ call' = EnterParameters(o)
    /\ steps' = steps + 1
    /\ UNCHANGED <<slots, objs, types, tables, log, last>>

\* obj.parameters: one step of the evaluation
StepParameters ==
    /\ call.status = "running"
    /\ call' = ParametersStep(World(NoneV), call)
    /\ UNCHANGED <<slots, objs, types, tables, log, last, steps>>

\* P(n=m)
NewHolding(m) ==
    /\ call.status = "idle"
    /\ NewNested(1, "n", m)

NextCycle ==
    \/ NewP
    \/ \E m \in ObjIds : NewHolding(m)
    \/ \E o \in ObjIds, m \in ObjIds : Store(o, "n", m)
    \/ \E o \in ObjIds : Store(o, "s", o)
    \/ \E o \in ObjIds : CallParameters(o)
    \/ StepParameters

SpecCycle == InitCycle /\ [][NextCycle]_vars /\ WF_vars(StepParameters)

----------------------------------------------------------------------------
(* Properties of the writes to one slot (specification Spec).              *)

\* the slot bound under the last operation's name when it ended
LastSlot == Bound(last.obj, last.name)

TryChains == {"configuration", "class_executions", "executions"}

\* the last operation was a write during which a validator or a callback
\* of the written slot raised
RejectedInTry == last.op = "write" /\ last.exc # "" /\ last.by \in TryChains

\* C1: a write during which a validator, a type-level callback or an
\* instance-level callback raises propagates the error and leaves the slot's
\* current value and previous_value as they were before the write began.
C1_RollbackAtomic ==
    RejectedInTry =>
        /\ slots[LastSlot].value = last.pre_value
        /\ slots[LastSlot].previous_value = last.pre_prev

\* the calls of the last top-level write made by the written slot itself,
\* in the order they were made
TopCalls ==
    SelectSeq(log, LAMBDA e : e.depth = 0 /\ e.slot = LastSlot
                              /\ e.chain \notin {"read_modifiers", "commit"})

CallsOf(chain) ==
    [i \in DOMAIN ChainOf(slots[LastSlot], chain) |->
        [chain |-> chain, op |-> ChainOf(slots[LastSlot], chain)[i].op,
         arg |-> ChainOf(slots[LastSlot], chain)[i].arg]]

\* what a write must call: write-transforms, validators, type-level
\* callbacks, instance-level callbacks, each chain in registration order
ExpectedCalls ==
    CallsOf("write_modifiers") \o CallsOf("configuration")
        \o CallsOf("class_executions") \o CallsOf("executions")

Made == [i \in DOMAIN TopCalls |->
            [chain |-> TopCalls[i].chain, op |-> TopCalls[i].op,
             arg |-> TopCalls[i].arg]]

IsPrefix(p, q) == Len(p) <= Len(q) /\ SubSeq(q, 1, Len(p)) = p

C3_PreviousValue ==
    \A o \in ObjIds : \A n \in AllNames :
        (Bound(o, n) # 0 /\ slots[Bound(o, n)].committed) =>
            slots[Bound(o, n)].previous_value = slots[Bound(o, n)].before

\* C8: a write to a Selector attribute of a value outside its choices is
\* rejected and leaves current value and previous_value unchanged.
C8_SelectorReject ==
    (last.op = "write" /\ last.name = "s" /\ last.val \notin DeclChoices) =>
        /\ last.exc = "ValueError"
        /\ slots[LastSlot].value = last.pre_value
        /\ slots[LastSlot].previous_value = last.pre_prev

----------------------------------------------------------------------------
(* Properties of instances (specification SpecObj).                        *)

\* C4: no slot object is in the bound_slots of two distinct instances.
C4_ExclusiveSlots ==
    \A o1 \in ObjIds, o2 \in ObjIds : \A n1 \in AllNames, n2 \in AllNames :
        (o1 # o2 /\ Bound(o1, n1) # 0) => Bound(o1, n1) # Bound(o2, n2)

\* the descriptor table of the declared type T, and what T declares
TTable == tables[GetDescriptors(World(NoneV), 1)]

TDeclared == {"a", "s", "r"}

ParameterNames(o) ==
    {slots[Parameters(World(NoneV), o)[i]].name :
        i \in DOMAIN Parameters(World(NoneV), o)}

\* C5: a name attached to one instance is not exposed on the original type's
\* descriptor table, nor in the bound_slots or visible parameters of any
\* other instance of that type (one that never had a parameter attached).
C5_AttachIsolated ==
    /\ DictKeys(TTable) \subseteq TDeclared
    /\ \A o \in ObjIds :
          objs[o].type = 1 =>
              /\ DictKeys(objs[o].params) \subseteq TDeclared
              /\ ParameterNames(o) \subseteq TDeclared

\* C7: the key set of an instance's bound_slots equals the key set of the
\* descriptor table of its type (or of its per-instance specialized type).
C7_KeysMatchTable ==
    \A o \in ObjIds :
        DictKeys(objs[o].params)
            = DictKeys(tables[Descriptors(World(NoneV), o)])

IsDefault(o, n) == slots[Bound(o, n)].first

\* C9: a freshly constructed object reports is_default = true for every
\* attribute not supplied at construction, whatever happened before; after
\* an explicit successful write is_default is false, and stays false.
C9_DefaultFlag ==
    [][/\ (last'.op = "new" /\ last'.exc = "") =>
              \A n \in DictKeys(objs'[last'.obj].params) \ {last'.name} :
                  slots'[DictGet(objs'[last'.obj].params, n)].first
       /\ (last'.op = "write" /\ last'.exc = "") =>
              \/ DictGet(objs'[last'.obj].params, last'.name) = 0
              \/ ~slots'[DictGet(objs'[last'.obj].params, last'.name)].first
       /\ \A o \in ObjIds : \A n \in AllNames :
              (Bound(o, n) # 0 /\ ~IsDefault(o, n))
                  => ~slots'[DictGet(objs'[o].params, n)].first]_vars

\* C10: a watcher registered on attribute a of instance X is called on the
\* successful writes to X.a, and on no write to (or construction of) another
\* instance.
C10_WatcherIsolated ==
    /\ last.op \in {"write", "new"} =>
          \A i \in DOMAIN log :
              log[i].chain = "executions" => log[i].arg = last.obj
    /\ (last.op = "write" /\ last.exc = "" /\ last.name = "a") =>
          \A j \in DOMAIN slots[LastSlot].executions :
              \E i \in DOMAIN log :
                  /\ log[i].chain = "executions"
                  /\ log[i].arg = slots[LastSlot].executions[j].arg

----------------------------------------------------------------------------
(* Properties of type declaration (specification SpecTypes).               *)

\* the type declared by the step, its parent and its siblings
NewTypeId == Len(types')

ParentAndSiblings ==
    {t \in DOMAIN types :
        t = types'[NewTypeId].base \/ types[t].base = types'[NewTypeId].base}

\* C6: declaring a new attribute or redefining an inherited one on a subtype
\* leaves the descriptor table of the parent type and of every sibling
\* subtype unchanged: same keys, same prototype slot under each key.
C6_ForkIsolation ==
    [][\A t \in ParentAndSiblings :
          /\ types'[t].descriptors = types[t].descriptors
          /\ GetDescriptors(World(NoneV), t) # 0 =>
                tables'[GetDescriptors(World(NoneV), t)]
                    = tables[GetDescriptors(World(NoneV), t)]]_vars

----------------------------------------------------------------------------
(* Properties of watcher declaration (specification SpecWatch).            *)

\* the prototype the base of the new class holds under a name before the
\* class statement (0: none)
ParentProto(name) ==
    IF GetDescriptors(World(NoneV), types'[NewTypeId].base) = 0 THEN 0
    ELSE DictGet(tables[GetDescriptors(World(NoneV), types'[NewTypeId].base)],
                 name)

\* the class statement redefines, under the name, a prototype that has
\* type-level callbacks
Redefines(name) ==
    /\ Len(types') = Len(types) + 1
    /\ types'[NewTypeId].attrs[name] # 0
    /\ ParentProto(name) # 0
    /\ Len(slots[ParentProto(name)].class_executions) > 0

\* C11: a redefinition in a subtype copies the type-level callback chain of
\* the inherited prototype onto the new prototype, so that writes to the
\* subtype's attribute call the parent's watchers, unless the redefinition
\* disables watcher inheritance, and then none of the parent's callbacks is
\* on the new chain; the parent prototype's chain is unchanged in both cases.
C11_InheritWatchers ==
    [][/\ \A name \in AllNames :
             Redefines(name) =>
                /\ slots'[ParentProto(name)].class_executions
                      = slots[ParentProto(name)].class_executions
                /\ slots'[types'[NewTypeId].attrs[name]].inherit_watchers =>
                      IsPrefix(slots[ParentProto(name)].class_executions,
                               slots'[types'[NewTypeId].attrs[name]].class_executions)
                /\ ~slots'[types'[NewTypeId].attrs[name]].inherit_watchers =>
                      Range(slots'[types'[NewTypeId].attrs[name]].class_executions)
                         \cap Range(slots[ParentProto(name)].class_executions) = {}
       /\ (last'.op = "write" /\ last'.exc = ""
             /\ DictGet(objs'[last'.obj].params, last'.name) # 0) =>
             \A fn \in Range(slots'[DictGet(objs'[last'.obj].params,
                                            last'.name)].class_executions) :
                \E i \in DOMAIN log' :
                   /\ log'[i].chain = "class_executions"
                   /\ log'[i].op = fn.op /\ log'[i].arg = fn.arg]_vars

\* the calls of a class-level callable made during the last operation
ClassCalls(fn) ==
    {i \in DOMAIN log : /\ log[i].chain = "class_executions"
                        /\ log[i].op = fn.op /\ log[i].arg = fn.arg}

\* the calls a Dependent wrapper made to its function, with the owner only
OwnerOnlyCalls(fn) ==
    {i \in DOMAIN log : /\ log[i].chain = "fget"
                        /\ log[i].arg = fn.arg /\ log[i].val = NoneV}

\* C12: a watcher declared on a type is on the type-level chain of every
\* attribute it names in the type's descriptor table, wherever it stands in
\* the class body; a successful write to a named attribute on an instance of
\* the type calls it exactly once (a dependent watcher calls its function
\* with the owner only), a write to another attribute never calls it.
C12_WatcherAttached ==
    /\ \A t \in DOMAIN types : \A wd \in Range(types[t].watchers) :
          \A n \in Range(wd.variables) :
             (types[t].descriptors # 0
                 /\ DictHas(tables[types[t].descriptors], n)) =>
                wd.fget \in Range(slots[DictGet(tables[types[t].descriptors],
                                                n)].class_executions)
    /\ (last.op = "write" /\ last.exc = "" /\ LastSlot # 0) =>
          \A wd \in Range(types[objs[last.obj].type].watchers) :
             /\ Cardinality(ClassCalls(wd.fget))
                   = IF last.name \in Range(wd.variables) THEN 1 ELSE 0
             /\ wd.fget.op = "dependent" =>
                   Cardinality(OwnerOnlyCalls(wd.fget))
                      = Cardinality(ClassCalls(wd.fget))

----------------------------------------------------------------------------
(* Properties of guarded attributes (specification SpecGuard).             *)

\* the last operation was a write to an attribute whose slot was bound
WroteBound == last.op = "write" /\ last.pre_slot # 0

\* C13: a write to an attribute whose slot is read-only is rejected and
\* leaves the attribute's value unchanged, whether the attribute is at its
\* prototype default or already bound by an earlier write.
C13_ReadOnly ==
    (WroteBound /\ slots[last.pre_slot].readonly) =>
        /\ last.exc = "AttributeError"
        /\ slots[LastSlot].value = last.pre_value

\* C14: a write of None to an attribute whose slot forbids None is rejected
\* and leaves the attribute's value unchanged, whether the attribute is at
\* its prototype default or already bound by an earlier write.
C14_NullNotAllowed ==
    (WroteBound /\ ~slots[last.pre_slot].allow_none /\ last.val = NoneV) =>
        /\ last.exc = "AttributeError"
        /\ slots[LastSlot].value = last.pre_value

\* the last operation constructed an instance with a keyword that names no
\* declared attribute of the type
UnknownKeyword ==
    /\ last.op = "new" /\ last.name # ""
    /\ last.name \notin DictKeys(tables[GetDescriptors(World(NoneV), 1)])

\* C15: construction with a keyword that is not a declared attribute
\* completes and yields the object, with the name set as a plain field that
\* is not in bound_slots.
C15_UnknownKeyword ==
    UnknownKeyword =>
        /\ last.exc = ""
        /\ last.obj \in DOMAIN objs
        /\ objs[last.obj].plain[last.name] = last.val
        /\ ~DictHas(objs[last.obj].params, last.name)

----------------------------------------------------------------------------
(* Properties of attributes holding a nested object (specification         *)
(* SpecVar).                                                               *)

\* the value held by the slot bound under the last operation's name
LastValue == IF LastSlot = 0 THEN NoneV ELSE slots[LastSlot].value

\* the `value` slot of the object the reference v names (0: none)
ValueSlotOf(v) ==
    IF IsRef(v) THEN DictGet(objs[Deref(v)].params, "value") ELSE 0

\* the last operation wrote a plain number, one the nested `value` slot
\* accepts, to an attribute that held a nested object
ScalarOverNested ==
    /\ last.op = "write"
    /\ last.val \in 0..DeclLimits[2]
    /\ IsRef(last.pre_value)

\* C16: a plain scalar written to a Variable attribute that holds a nested
\* object never replaces the object, on the first write after construction
\* and on every later one, for every nested object type: the write succeeds,
\* the attribute still holds an object of the same type (the same object
\* once the attribute has its own slot), and that object's `value` slot
\* holds the scalar.
C16_ScalarDelegated ==
    ScalarOverNested =>
        /\ last.exc = ""
        /\ IsRef(LastValue)
        /\ ~last.pre_first => LastValue = last.pre_value
        /\ objs[Deref(LastValue)].type = objs[Deref(last.pre_value)].type
        /\ slots[ValueSlotOf(LastValue)].value = last.val

----------------------------------------------------------------------------
(* Properties of generated values (specification SpecSampler).             *)

\* the calls of the sampler function made by the last operation
Generated ==
    {i \in DOMAIN log : /\ log[i].chain = "read_modifiers"
                        /\ log[i].op = "get_extension"
                        /\ log[i].slot = LastSlot}

\* the calls the write of the generated value made from the slot's chains
SampledCalls ==
    SelectSeq(log, LAMBDA e : e.depth = 1 /\ e.slot = LastSlot
                              /\ e.chain \notin {"read_modifiers", "commit"})

SampledMade == [i \in DOMAIN SampledCalls |->
                   [chain |-> SampledCalls[i].chain, op |-> SampledCalls[i].op,
                    arg |-> SampledCalls[i].arg]]

\* the last operation read a Sampler attribute bound in __params__
ReadSampler == last.op = "read" /\ last.name = "r" /\ last.pre_slot # 0

\* C17: every read of a Sampler attribute calls the generating function
\* exactly once and commits its result as a normal write before returning:
\* the validators and callbacks of the slot are called with the generated
\* value; when none rejects it the read returns it, the slot holds it and
\* previous_value is the value held before the read; when one rejects it
\* the read raises and value and previous_value are as before the read.
C17_SamplerRead ==
    ReadSampler =>
        /\ Cardinality(Generated) = 1
        /\ \A i \in DOMAIN SampledCalls : SampledCalls[i].val = last.val
        /\ IsPrefix(SampledMade, ExpectedCalls)
        /\ last.exc = "" =>
              /\ SampledMade = ExpectedCalls
              /\ last.ret = last.val
              /\ slots[LastSlot].value = last.val
              /\ slots[LastSlot].previous_value = last.pre_value
        /\ last.exc # "" =>
              /\ slots[LastSlot].value = last.pre_value
              /\ slots[LastSlot].previous_value = last.pre_prev

----------------------------------------------------------------------------
(* Properties of the parameter list (specification SpecNest).              *)

\* the names the class statement of o's class declares, in its order
DeclaredNames(o) ==
    IF types[objs[o].type].qualname = "P"
    THEN [i \in DOMAIN PBody |-> PBody[i].name]
    ELSE [i \in DOMAIN QBody |-> QBody[i].name]

RECURSIVE Flattened(_, _)
\* what the claim lists for o from its i-th declared name on: each visible
\* slot, followed at once by what is listed for the object it holds
Flattened(o, i) ==
    IF i > Len(DeclaredNames(o)) THEN <<>>
    ELSE IF ~slots[Bound(o, DeclaredNames(o)[i])].visible
    THEN Flattened(o, i + 1)
    ELSE IF IsRef(slots[Bound(o, DeclaredNames(o)[i])].value)
    THEN <<Bound(o, DeclaredNames(o)[i])>>
            \o Flattened(Deref(slots[Bound(o, DeclaredNames(o)[i])].value), 1)
            \o Flattened(o, i + 1)
    ELSE <<Bound(o, DeclaredNames(o)[i])>> \o Flattened(o, i + 1)

\* C18: `parameters` returns the visible bound slots of the object in
\* declaration order; the visible parameters of an object held by a visible
\* slot, flattened recursively depth first, stand immediately after that slot
\* and before the next sibling slot; slots that are not visible are omitted.
C18_ParametersFlattened ==
    \A o \in ObjIds : Parameters(World(NoneV), o) = Flattened(o, 1)

\* an object whose visible slot holds an object whose visible slot holds a
\* third one, with a sibling slot declared after the holding slot
C18_Witness ==
    \E o \in ObjIds : \E m \in ObjIds : \E c \in ObjIds :
        /\ types[objs[o].type].qualname = "P"
        /\ slots[Bound(o, "n")].value = Ref(m)
        /\ slots[Bound(m, "n")].value = Ref(c)
        /\ Len(Parameters(World(NoneV), o))
              > Len(ParametersShallow(World(NoneV), o))
                   + Len(ParametersShallow(World(NoneV), m))

----------------------------------------------------------------------------
(* Properties of the range validator (specification SpecLimits).  In a     *)
(* step, slots[last'.pre_slot] is the slot bound under the name before the *)
(* operation and slots'[LastSlot'] the slot bound under it afterwards.     *)

\* the step writes the number last'.val to the attribute
WritesNumber ==
    /\ steps' = steps + 1
    /\ last'.op = "write"
    /\ last'.val \in Values

\* the number the step writes lies within the limits the slot had
InRange ==
    /\ slots[last'.pre_slot].limits[1] <= last'.val
    /\ last'.val <= slots[last'.pre_slot].limits[2]

\* C19: a LimitedNumber slot with limits [min, max] accepts every written
\* number v with min <= v <= max, both bounds included (the write raises
\* nothing and the slot holds v), and rejects every other number with
\* ValueError (out of range), keeping its value.
C19_InclusiveLimits ==
    [][WritesNumber =>
          IF InRange
          THEN last'.exc = "" /\ slots'[LastSlot'].value = last'.val
          ELSE /\ last'.exc = "ValueError"
               /\ slots'[LastSlot'].value = slots[last'.pre_slot].value]_vars

\* a write of a number equal to one of the limits was accepted by a slot
\* that had been written before
C19_Witness ==
    /\ last.op = "write" /\ last.exc = ""
    /\ last.val \in Range(slots[LastSlot].limits)
    /\ slots[LastSlot].previous_value # NoneV

\* the step changes a limit of the slot
ChangesLimit == steps' = steps + 1 /\ last'.op \in {"min", "max"}

\* C20: changing min or max of a LimitedNumber slot never raises, installs
\* the new bound and leaves the slot's value unchanged even when the value is
\* outside the new range; the new range is enforced from the next write on:
\* a write of a number outside the limits set last is rejected with
\* ValueError.
C20_LimitsLazy ==
    [][/\ ChangesLimit =>
             /\ last'.exc = ""
             /\ slots'[LastSlot'].value = slots[last'.pre_slot].value
             /\ slots'[LastSlot'].limits =
                   IF last'.op = "min"
                   THEN <<last'.val, slots[last'.pre_slot].limits[2]>>
                   ELSE <<slots[last'.pre_slot].limits[1], last'.val>>
       /\ (WritesNumber /\ last.op \in {"min", "max"} /\ ~InRange) =>
             last'.exc = "ValueError"]_vars

\* a limit was changed so that the value the slot holds is outside the range
C20_Witness ==
    /\ last.op \in {"min", "max"}
    /\ \/ slots[LastSlot].value < slots[LastSlot].limits[1]
       \/ slots[LastSlot].value > slots[LastSlot].limits[2]

----------------------------------------------------------------------------
(* Properties of the type validator (specification SpecTyped).             *)

\* the shape is a structural subtype of the allowed shape, and not that shape
IsProperSubtype(shape, allowed) == shape # allowed /\ IsSubclass(shape, allowed)

\* what the slot is configured to accept
Acceptable(s, v) ==
    \E i \in DOMAIN s.types :
        \/ ShapeOf(v) = s.types[i]
        \/ s.allow_subclasses /\ IsProperSubtype(ShapeOf(v), s.types[i])

\* C21: a Typed slot accepts a written value whose shape is one of its
\* allowed shapes, accepts a value whose shape is a structural subtype of an
\* allowed shape only when allow_subclasses is set, and rejects every other
\* value with TypeError, keeping its value.
C21_TypedAccepts ==
    (last.op = "write" /\ LastSlot # 0) =>
        IF Acceptable(slots[LastSlot], last.val)
        THEN last.exc = "" /\ slots[LastSlot].value = last.val
        ELSE last.exc = "TypeError" /\ slots[LastSlot].value = last.pre_value

----------------------------------------------------------------------------
(* Properties of reads during construction (specification SpecEarly).      *)

\* what the callables of the last operation got when they read n
ReadsOfN == {log[i].val : i \in {j \in DOMAIN log : log[j].chain = "getattr"}}

\* C22: a read of a declared attribute of an object whose construction has
\* not completed returns the default value of the prototype slot, at every
\* point of construction: also a read made by a type-level callback that
\* fires while an earlier-declared attribute is bound and the attribute read
\* is not bound yet.
C22_EarlyRead ==
    (last.op = "new" /\ last.name = "a") =>
        \A v \in ReadsOfN :
            v = slots[DictGet(tables[types[1].descriptors], "n")].value

----------------------------------------------------------------------------
(* Properties of the side effects of callbacks (specification SpecSide).   *)

\* the last operation was a write to a that an instance-level callback
\* rejected after the type-level callback had committed its write to n
RejectedAfterSideWrite ==
    /\ last.op = "write" /\ last.name = "a"
    /\ last.exc # "" /\ last.by = "executions"
    /\ \E i \in DOMAIN log :
          log[i].chain = "commit" /\ log[i].slot = Bound(last.obj, "n")

\* C23: when a write is rejected after an earlier callback of the same write
\* has committed a write to another slot, the written slot's value and
\* previous_value are restored and the other slot keeps the value the
\* callback committed.
C23_SideEffectKept ==
    RejectedAfterSideWrite =>
        /\ slots[LastSlot].value = last.pre_value
        /\ slots[LastSlot].previous_value = last.pre_prev
        /\ slots[Bound(last.obj, "n")].value = last.val

\* such a rejected write, whose value the other slot holds and the written
\* slot does not
C23_Witness ==
    /\ RejectedAfterSideWrite
    /\ slots[Bound(last.obj, "n")].value = last.val
    /\ slots[LastSlot].value # last.val

----------------------------------------------------------------------------
(* Properties of what callbacks see (specification SpecDuring).            *)

\* what the callables of the last top-level write read as extra.<field>
SeenDuring(field) ==
    {log[i].val : i \in {j \in DOMAIN log : /\ log[j].chain = field
                                            /\ log[j].slot = LastSlot
                                            /\ log[j].depth = 1}}

\* C24: while the validators and callbacks of a write of v over u run, the
\* slot reports the value v and the previous_value u: each of them is called
\* with v as the new value and reads u as the slot's previous_value.
C24_SeenDuringWrite ==
    (last.op = "write" /\ LastSlot # 0) =>
        /\ \A i \in DOMAIN TopCalls : TopCalls[i].val = last.val
        /\ SeenDuring("value") \subseteq {last.val}
        /\ SeenDuring("previous_value") \subseteq {last.pre_value}


----------------------------------------------------------------------------
(* Properties of the default flag under rejected writes (specification     *)
(* SpecLimits).                                                            *)

\* the write just attempted was rejected
Rejected == last.op = "write" /\ last.exc # ""

\* C25: a rejected write never clears is_default: an attribute that reported
\* is_default = true before a write that was rejected reports it afterwards,
\* the first write attempted on an attribute left at its default at
\* construction included.
C25_RejectedKeepsDefault ==
    (Rejected /\ last.pre_first) => IsDefault(last.obj, last.name)


----------------------------------------------------------------------------
(* Properties of the write-transforms of a delegated write (specification  *)
(* SpecMod).                                                               *)

\* the `value` slot of the object held by the attribute name of o (0: none)
NestedValueSlot(o, name) ==
    IF Bound(o, name) = 0 THEN 0 ELSE ValueSlotOf(slots[Bound(o, name)].value)

\* the write-transforms the last write called on the nested `value` slot, in
\* the order of the calls
TransformsMade ==
    SelectSeq(log, LAMBDA e : /\ e.chain = "write_modifiers"
                              /\ e.depth = 0
                              /\ e.slot = NestedValueSlot(last.obj, last.name))

\* the callables of a chain as the log names them
Named(chain) == [i \in DOMAIN chain |-> <<chain[i].op, chain[i].arg>>]

\* the Variable slot's write-transforms, then the nested slot's own
TransformsExpected ==
    Named(slots[LastSlot].write_modifiers)
        \o Named(slots[NestedValueSlot(last.obj, last.name)].write_modifiers)

\* the write-transforms were called in the expected order: all of them, or
\* those up to the one that raised
TransformsInOrder ==
    /\ IsPrefix(Named(TransformsMade), TransformsExpected)
    /\ last.by # "write_modifiers" => Named(TransformsMade) = TransformsExpected

\* C26: a scalar write delegated through a Variable attribute runs the
\* Variable slot's write-transforms before the nested value slot's own, and
\* when the write has returned or failed the nested slot's write-transform
\* chain is exactly what it was before the write.
C26_TransformsFirstThenRestored ==
    [][\A o \in DOMAIN objs', name \in AllNames :
          (last'.op = "write" /\ last'.obj = o /\ last'.name = name) =>
              /\ TransformsInOrder'
              /\ slots'[NestedValueSlot(o, name)'].write_modifiers
                     = slots[NestedValueSlot(o, name)].write_modifiers]_vars

\* a delegated write failed in the nested slot's validators after the
\* Variable's write-transform and the nested slot's own had been called
C26_Witness ==
    /\ last.op = "write" /\ last.exc = "ValueError"
    /\ last.by = "configuration"
    /\ Len(slots[LastSlot].write_modifiers) > 0
    /\ Len(TransformsMade) = Len(TransformsExpected)
    /\ Len(TransformsMade) >= 2


----------------------------------------------------------------------------
(* Properties of the per-instance types (specification SpecAttach).        *)

\* the instance's type is a per-instance specialization
Specialized(o) == HasPerInstance(World(NoneV), objs[o].type)

\* the step rebinds o to a type synthesized by the step: a new type, marked,
\* whose base is the type o had
Rebound(o) ==
    /\ objs'[o].type # objs[o].type
    /\ objs'[o].type = Len(types) + 1
    /\ Len(types') = Len(types) + 1
    /\ types'[objs'[o].type].perinstance
    /\ types'[objs'[o].type].base = objs[o].type

\* C27: over any sequence of attach_parameter calls an instance is rebound
\* to a newly synthesized specialized type at most once, by the first call
\* on it; later calls on the instance reuse that type, and no call changes
\* the type of another instance.
C27_SpecializedOnce ==
    [][\A o \in DOMAIN objs :
          /\ objs'[o].type # objs[o].type =>
                 /\ last'.op = "attach" /\ last'.obj = o
                 /\ ~Specialized(o)
                 /\ Rebound(o)
          /\ (last'.op = "attach" /\ last'.obj = o) =>
                 /\ Specialized(o)'
                 /\ Specialized(o) => /\ objs'[o].type = objs[o].type
                                      /\ Len(types') = Len(types)]_vars

\* a second attach_parameter call on an instance while another instance
\* exists
C27_Witness ==
    /\ last.op = "attach"
    /\ Len(objs) > 1
    /\ Bound(last.obj, "n") # 0
    /\ Bound(last.obj, "value") # 0
    /\ \E o \in ObjIds : objs[o].type # objs[last.obj].type


----------------------------------------------------------------------------
(* Properties of the evaluation of `parameters` (specification SpecCycle). *)

\* the objects held by the visible executors of o
HeldVisible(o) ==
    {Deref(slots[objs[o].params.slot[k]].value) :
        k \in {n \in Range(objs[o].params.keys) :
                  /\ slots[objs[o].params.slot[n]].visible
                  /\ IsRef(slots[objs[o].params.slot[n]].value)}}

RECURSIVE Within(_, _)
\* the objects reached from those of S through at most k visible executors
Within(S, k) ==
    IF k = 0 THEN S
    ELSE Within(S \cup UNION {HeldVisible(m) : m \in S}, k - 1)

\* o contains, directly or not, an object that contains itself, through
\* visible executors only
Cyclic(o) ==
    \E m \in Within({o}, Len(objs)) : m \in Within(HeldVisible(m), Len(objs))

\* C28: the evaluation of `parameters` terminates for every graph of nested
\* objects without a cycle, and returns the flattened list; for an object
\* that contains itself, directly or not, through visible slots it never
\* returns a result: the recursion goes on, an activation deeper at every
\* turn of the cycle, until the interpreter's recursion limit ends it.
C28_ParametersTermination ==
    /\ [](call.status = "returned" =>
              /\ ~Cyclic(call.target)
              /\ call.result = Parameters(World(NoneV), call.target))
    /\ [](call.status = "RecursionError" =>
              Cyclic(call.target) /\ call.depth = RecursionLimit)
    /\ (call.status = "running" /\ ~Cyclic(call.target))
           ~> (call.status = "returned")
    /\ (call.status = "running" /\ Cyclic(call.target))
           ~> (call.status = "RecursionError")

\* the evaluation for an object that holds an object that holds the first
\* was ended by the recursion limit
C28_Witness ==
    /\ call.status = "RecursionError"
    /\ call.target \notin HeldVisible(call.target)
    /\ \E m \in HeldVisible(call.target) : call.target \in HeldVisible(m)


----------------------------------------------------------------------------
(* Properties of a write that a callable ends (specification Spec).        *)

\* the logged call e of a validator or of a callback is one that raises: a
\* validator that rejects the value, a callback that always raises or that
\* rejects the value, the clamping callback called with None
Raiser(e) ==
    \/ /\ e.chain = "configuration"
       /\ Call(World(NoneV), e.chain, Cb(e.op, e.slot, e.arg), e.slot, e.val,
               0).exc # ""
    \/ e.op = "raise"
    \/ e.op = "reject" /\ e.val = e.arg
    \/ e.op = "clamp" /\ e.val = NoneV

\* the position of a chain in the fixed order of the setter
ChainRank(chain) ==
    CASE chain = "write_modifiers" -> 0
      [] chain = "configuration" -> 1
      [] chain = "class_executions" -> 2
      [] chain = "executions" -> 3

\* C29: when a validator or a callback raises during a write, no validator
\* or callback that stands later in the fixed order (the remaining
\* validators, then the type-level callbacks, then the instance-level
\* callbacks) is invoked for that write.
C29_NothingAfterRaise ==
    last.op = "write" =>
        /\ \A i \in DOMAIN TopCalls :
              (TopCalls[i].chain \in TryChains /\ Raiser(TopCalls[i]))
                  => i = Len(TopCalls)
        /\ RejectedInTry =>
              \A i \in DOMAIN TopCalls :
                  ChainRank(TopCalls[i].chain) <= ChainRank(last.by)

\* a write rejected by a validator of a slot that has a type-level and an
\* instance-level callback
C29_Witness ==
    /\ RejectedInTry /\ last.by = "configuration"
    /\ Len(TopCalls) > 0
    /\ Raiser(TopCalls[Len(TopCalls)])
    /\ Len(slots[LastSlot].class_executions) > 0
    /\ Len(slots[LastSlot].executions) > 0


\* a callable of the last write made a write to the same slot that committed
NestedCommit ==
    \E i \in DOMAIN log : /\ log[i].chain = "commit"
                          /\ log[i].slot = LastSlot
                          /\ log[i].depth > 0

\* C30: when a callback of a write makes a committed write to the same slot
\* and a later validator or callback of the outer write raises, the outer
\* rollback restores the slot's value and previous_value to what they were
\* immediately before the outer write began.
C30_ReentrantRollback ==
    (RejectedInTry /\ NestedCommit) =>
        /\ slots[LastSlot].value = last.pre_value
        /\ slots[LastSlot].previous_value = last.pre_prev


----------------------------------------------------------------------------
(* Properties of a watcher declared on an inherited attribute              *)
(* (specification SpecWatch).                                              *)

\* the class statement declares a watcher of an attribute that the new
\* class inherits and does not redefine
WatchesInherited(name) ==
    /\ Len(types') = Len(types) + 1
    /\ types'[NewTypeId].attrs[name] = 0
    /\ ParentProto(name) # 0
    /\ \E wd \in Range(types'[NewTypeId].watchers) :
          name \in Range(wd.variables)

\* the class whose body declares the function a logged call names
DeclaredBy(e) == e.arg \div 2

\* the type-level callbacks the last write called that were declared by a
\* class that does not redefine the written attribute and that the written
\* instance's type does not descend from
ForeignCalls ==
    {i \in DOMAIN log :
        /\ log[i].chain = "class_executions"
        /\ types[DeclaredBy(log[i])].attrs[last.name] = 0
        /\ ~IsSubtype(World(NoneV), objs[last.obj].type, DeclaredBy(log[i]))}

\* C31: declaring a type-level watcher on a subtype for an attribute that
\* the subtype inherits without redefining it does not change the parent
\* type's prototype slot, and a write to that attribute on an instance of
\* the parent type or of a sibling subtype never calls the subtype's
\* watcher.
C31_SubtypeWatcherScoped ==
    [][/\ \A name \in AllNames :
             WatchesInherited(name) =>
                slots'[ParentProto(name)] = slots[ParentProto(name)]
       /\ (last'.op = "write" /\ last'.obj \in DOMAIN objs') =>
             ForeignCalls' = {}]_vars


----------------------------------------------------------------------------
(* Properties of the frame of a read or a write (specification SpecObj).   *)

\* what the instance o reports for the attribute n: value, previous_value
\* and is_default
Reported(o, n) ==
    <<slots[Bound(o, n)].value, slots[Bound(o, n)].previous_value,
      slots[Bound(o, n)].first>>

\* C32: for two distinct instances X and Y, no attribute read or attribute
\* write performed on X changes the value, previous_value or is_default that
\* Y reports for any attribute, reads of Sampler attributes and writes made
\* while X still has slots at their prototype default included.
C32_OtherInstanceUnchanged ==
    [][last'.op \in {"read", "write"} =>
          \A y \in DOMAIN objs : \A n \in AllNames :
              (y # last'.obj /\ Bound(y, n) # 0) =>
                  Reported(y, n)' = Reported(y, n)]_vars

============================================================================
